---------------------------- MODULE Spec2Model ----------------------------
(***************************************************************************)
(* A model of arklib: the atomic versioned file (src/atomic_file) with its *)
(* modify retry loop, and the resource index (src/index.rs).               *)
(*                                                                         *)
(* A directory is a function from file names to contents.  A file name is  *)
(* a record [stem, ext]: a version file "{dirname}_{machine_id}.{version}" *)
(* has stem = the machine (a positive number) and ext = the version; a     *)
(* scratch file (ten random alphanumerics, no '.') has stem = 0 - w for    *)
(* the writer w that made it and ext = NoExt.                              *)
(***************************************************************************)
EXTENDS Integers, Sequences, FiniteSets, TLC

VARIABLES
    dir,        \* the shared directory: file name -> content (sequence of bytes)
    prefixOf,   \* writer -> identity prefix of its AtomicFile
    pc,         \* writer -> position in its current call
    directory,  \* the path of the directory, as text
    helper,     \* writer -> the helper its call runs: modify or modify_json
    pruning,    \* writer -> prune_old_versions: entries listed, files deleted
    cur,        \* writer -> ReadOnlyFile returned by its last load()
    buf,        \* writer -> bytes handed to the operator in this iteration
    lv,         \* writer -> latest_version local of compare_and_swap
    casres,     \* writer -> result of its last compare_and_swap
    marker,     \* writer -> marker byte of its current call
    ncalls,     \* number of calls started so far
    late,       \* number of calls started while another call was running
    outcome,    \* marker of a finished call -> result kind returned to its caller
    faults,     \* number of injected hard_link I/O failures
    fs,         \* the tree under the index root: path -> file
    path2id,    \* ResourceIndex.path2id: path -> IndexEntry
    id2path,    \* ResourceIndex.id2path: id -> representative path
    collisions, \* ResourceIndex.collisions: id -> number of paths
    stored,     \* the file $root/.ark/index: whether it exists, and its lines
    upd,        \* result of the last index operation
    panicked,   \* a debug assertion of the index has failed
    debug_assertions, \* the build checks debug_assert!
    nfs,        \* number of changes made to the files under the root
    rid,        \* a resource identifier
    rtext,      \* the text it was formatted to, and by which implementation
    rparsed,    \* the result of parsing that text
    REGISTRAR,  \* the registered index object of the root, or NoIndex
    ppc,        \* caller -> position in its provide_index call
    pindex,     \* caller -> index object it holds in that call
    handed,     \* the index objects provide_index has returned so far
    nindex,     \* number of index objects constructed so far
    npcalls,    \* number of provide_index calls started so far
    rdsize,     \* compute_reader: the data_size argument
    rdlen,      \* compute_reader: the length of the source behind the reader
    rdleft,     \* compute_reader: what the reader has not yielded yet
    rdread,     \* compute_reader: the local bytes_read (a u32)
    rdres       \* compute_reader: position or outcome of the call

idvars == <<rid, rtext, rparsed>>

regvars == <<REGISTRAR, ppc, pindex, handed, nindex, npcalls>>

rdvars == <<rdsize, rdlen, rdleft, rdread, rdres>>

libvars == <<regvars, rdvars>>

afstate == <<dir, prefixOf, directory, helper, pruning, pc, cur, buf, lv, casres, marker, ncalls, late, outcome, faults>>

ixstate == <<fs, path2id, id2path, collisions, stored, upd, panicked, debug_assertions, nfs>>

\* What the index actions leave alone, and what the atomic file actions do.
afvars == <<afstate, idvars, libvars>>

ixvars == <<ixstate, idvars, libvars>>

vars == <<afvars, ixvars>>

\* ---------------------------------------------------------------- bounds
NWriters == 2
NPrefixes == 2
MaxCalls == 3
MaxFaults == 1
SeqCommits == 20
NPaths == 2
NContents == 2
MaxTime == 2
MaxCount == 3
MaxFsOps == 4
MaxLoadVersion == 2
MaxDirFiles == 4
HashLen == 2
MaxDataSize == 12
NCallers == 2
MaxProvideCalls == 4
MaxLateCalls == 2

\* ------------------------------------------------------ program constants
MAX_VERSION_FILES == 10

NoExt == -1
None == -1

Writers == 1..NWriters
Prefixes == 1..NPrefixes

\* ---------------------------------------------------------------- helpers
Max(a, b) == IF a >= b THEN a ELSE b

Min(a, b) == IF a <= b THEN a ELSE b

Remove(d, names) == [n \in (DOMAIN d) \ names |-> d[n]]

Put(d, name, data) == [n \in (DOMAIN d) \cup {name} |-> IF n = name THEN data ELSE d[n]]

\* The elements of S in one order.
RECURSIVE SetToSeq(_)
SetToSeq(S) == IF S = {} THEN << >>
               ELSE LET x == CHOOSE y \in S : TRUE IN <<x>> \o SetToSeq(S \ {x})

\* The elements of S in every order.
RECURSIVE Listings(_)
Listings(S) ==
    IF S = {} THEN {<< >>}
    ELSE UNION {{<<x>> \o l : l \in Listings(S \ {x})} : x \in S}

\* Texts are sequences of one-character strings.
Digit == <<"0", "1", "2", "3", "4", "5", "6", "7", "8", "9">>

IsDigit(ch) == \E d \in 1..10 : Digit[d] = ch

DigitValue(ch) == (CHOOSE d \in 1..10 : Digit[d] = ch) - 1

\* `{}` (and `{:?}`) of a u8.
RECURSIVE Decimal(_)
Decimal(n) ==
    IF n < 10 THEN <<Digit[n + 1]>>
    ELSE Decimal(n \div 10) \o <<Digit[(n % 10) + 1]>>

\* A number beyond the integers of the checker is the sequence of its
\* decimal digits, most significant first, without leading zeros.
RECURSIVE DigitsOf(_)
DigitsOf(n) == IF n < 10 THEN <<n>> ELSE Append(DigitsOf(n \div 10), n % 10)

\* The value of a digit sequence that fits the integers of the checker.
RECURSIVE DigitsValue(_)
DigitsValue(ds) ==
    IF ds = << >> THEN 0
    ELSE DigitsValue(SubSeq(ds, 1, Len(ds) - 1)) * 10 + ds[Len(ds)]

RECURSIVE StripZeros(_)
StripZeros(ds) ==
    IF Len(ds) > 1 /\ ds[1] = 0 THEN StripZeros(Tail(ds)) ELSE ds

\* a <= b for digit sequences without leading zeros.
DigitsLeq(a, b) ==
    \/ Len(a) < Len(b)
    \/ /\ Len(a) = Len(b)
       /\ \/ a = b
          \/ \E i \in 1..Len(a) :
                a[i] < b[i] /\ \A k \in 1..(i - 1) : a[k] = b[k]

\* ------------------------------------------------------------ file names
\* A file of the directory is named by the machine that wrote it (stem)
\* and its version (ext); a scratch file has no version.
\* parse_version: the number after the last '.', None when there is none.
parse_version(name) == IF name.ext >= 0 THEN name.ext ELSE None

\* AtomicFile::path
path(prefix, version) == [stem |-> prefix, ext |-> version]

ScratchName(w) == [stem |-> 0 - w, ext |-> NoExt]

\* The directory the callers pass to AtomicFile::new; one that lies below
\* a directory whose name holds the prefix of machine 1; the directory
\* written with a trailing separator; and a path that ends in "..".
Directory == <<"/", "a">>

DirectoryBelowPrefix == <<"/", "a", "_", "b", ".", "x", "/", "a">>

DirectoryWithSeparator == <<"/", "a", "/">>

DirectoryParent == <<"/", "a", "/", ".", ".">>

\* The pieces of p between its separators; `acc` is the piece being read.
RECURSIVE SplitSeparator(_, _)
SplitSeparator(p, acc) ==
    IF p = << >> THEN <<acc>>
    ELSE IF Head(p) = "/" THEN <<acc>> \o SplitSeparator(Tail(p), << >>)
    ELSE SplitSeparator(Tail(p), Append(acc, Head(p)))

\* Path::components, without the root and a leading ".": repeated
\* separators, a trailing separator and "." pieces yield no component.
Components(p) ==
    SelectSeq(SplitSeparator(p, << >>), LAMBDA c : c # << >> /\ c # <<".">>)

NoName == [some |-> FALSE, name |-> << >>]

\* Path::file_name: the last component when it is a normal one; None for
\* a path that ends in ".." or has no component but the root or ".".
file_name(p) ==
    LET cs == Components(p)
    IN IF cs = << >> \/ cs[Len(cs)] = <<".", ".">> THEN NoName
       ELSE [some |-> TRUE, name |-> cs[Len(cs)]]

\* Path::join: a separator is added unless the path ends with one.
join(d, name) ==
    IF d = << >> \/ d[Len(d)] = "/" THEN d \o name ELSE d \o <<"/">> \o name

\* machine_uid::get() on machine p. The id of machine EmbeddingMachine
\* ends with "<directory name>_<id of machine 1>", so the names of its
\* files hold the prefix of machine 1.
EmbeddingMachine == NPrefixes + 2

MachineLetter == <<"b", "c", "d", "e", "f", "g", "h", "i">>

machine_id(p) ==
    IF p = EmbeddingMachine THEN <<"a", "_", "b">> ELSE <<MachineLetter[p]>>

\* AtomicFile::new: format!("{}_{}.", filename, machine_id)
prefix_text(d, p) == file_name(d).name \o <<"_">> \o machine_id(p) \o <<".">>

\* AtomicFile::new(directory) on machine p: InvalidInput for a path
\* without a file name.
AtomicFile_new(d, p) ==
    IF file_name(d).some
    THEN [ok |-> TRUE, kind |-> "Ok", directory |-> d, prefix |-> prefix_text(d, p)]
    ELSE [ok |-> FALSE, kind |-> "InvalidInput", directory |-> d, prefix |-> << >>]

\* The file name of a scratch file (ten alphanumeric characters) or of a
\* version file (format!("{}{version}", self.prefix)).
FileName(d, name) ==
    IF name.ext = NoExt
    THEN [i \in 1..10 |-> IF i = 10 THEN Digit[(0 - name.stem) + 1] ELSE "t"]
    ELSE prefix_text(d, name.stem) \o Decimal(name.ext)

\* entry.path(): the directory joined with the file name.
PathText(d, name) == join(d, FileName(d, name))

\* str::contains
contains(text, pat) ==
    \E i \in 0..(Len(text) - Len(pat)) : SubSeq(text, i + 1, i + Len(pat)) = pat

\* path.contains(&self.prefix) for the path of `name` in directory d and
\* the prefix of machine p.
PathContains(d, name, p) == contains(PathText(d, name), prefix_text(d, p))

\* The version files of d with the highest version.
TopNames(d) ==
    {n \in DOMAIN d : /\ parse_version(n) # None
                      /\ \A m \in DOMAIN d : parse_version(m) <= parse_version(n)}

\* fs::read_dir: the entries of the directory in an order the file system
\* chooses. The fold of latest_version keeps the files of the highest
\* version in the order they are listed in, wherever the other entries
\* stand, so the listings enumerated are those that differ in the order of
\* these files.
ReadDir(d) ==
    {SetToSeq((DOMAIN d) \ TopNames(d)) \o top : top \in Listings(TopNames(d))}

ReadOnlyFile(version, p) == [version |-> version, path |-> p]

\* The fold of latest_version over the directory entries: the candidate
\* files pushed so far and the running maximum.
RECURSIVE FoldLatest(_, _, _)
FoldLatest(entries, files, max_version) ==
    IF entries = << >> THEN [files |-> files, version |-> max_version]
    ELSE LET name == Head(entries)
             version == parse_version(name)
         IN IF version # None /\ version >= max_version
            THEN FoldLatest(Tail(entries), Append(files, ReadOnlyFile(version, name)), version)
            ELSE FoldLatest(Tail(entries), files, max_version)

latest_version(entries) ==
    LET r == FoldLatest(entries, << >>, 0)
    IN [files |-> SelectSeq(r.files, LAMBDA f : parse_version(f.path) = r.version),
        version |-> r.version]

\* files.into_iter().find(..): the first candidate carrying the prefix, as a
\* sequence of length 0 (no such file) or 1.
RECURSIVE FindOwn(_, _, _)
FindOwn(files, d, prefix) ==
    IF files = << >> THEN << >>
    ELSE IF PathContains(d, Head(files).path, prefix) THEN <<Head(files)>>
    ELSE FindOwn(Tail(files), d, prefix)

\* AtomicFile::load on a directory listing.
load(entries, d, prefix) ==
    LET r == latest_version(entries)
    IN IF Len(r.files) = 0
       THEN [ok |-> TRUE, file |-> ReadOnlyFile(r.version, path(prefix, r.version))]
       ELSE IF Len(r.files) = 1
       THEN [ok |-> TRUE, file |-> r.files[1]]
       ELSE LET f == FindOwn(r.files, d, prefix)
            IN IF f = << >> THEN [ok |-> FALSE, kind |-> "NotFound"]
               ELSE [ok |-> TRUE, file |-> f[1]]


\* ---------------------------------------------------- compare_and_swap
\* The staleness check of compare_and_swap: TRUE when the call goes on to
\* the hard link.
\* Mutant of CheckPasses: the staleness check is left out.
CheckPasses_always(latest, current_version) == TRUE

\* Mutant of CheckPasses: every call is taken as stale.
CheckPasses_never(latest, current_version) == FALSE

CheckPasses(latest, current_version) == ~(latest > current_version)

\* std::fs::hard_link(scratch, target) on directory d: EEXIST when the
\* target name is taken, else the target shares the scratch file's content.
\* Mutant of hard_link: the link replaces an existing target (a rename).
hard_link_overwrite(d, scratch, target) ==
    [ok |-> TRUE, kind |-> "Ok", dir |-> Put(d, target, d[scratch])]

hard_link(d, scratch, target) ==
    IF target \in DOMAIN d
    THEN [ok |-> FALSE, kind |-> "AlreadyExists", dir |-> d]
    ELSE [ok |-> TRUE, kind |-> "Ok", dir |-> Put(d, target, d[scratch])]

\* The version files prune_old_versions(version) removes from d.
\* Mutant of PruneSet: the window is one version short.
PruneSet_short(d, version) ==
    {n \in DOMAIN d : parse_version(n) # None
                       /\ parse_version(n) + MAX_VERSION_FILES - 1 <= version + 1}

\* Mutant of PruneSet: the window is turned around.
PruneSet_newest(d, version) ==
    {n \in DOMAIN d : parse_version(n) # None
                       /\ parse_version(n) + MAX_VERSION_FILES - 1 >= version}

PruneSet(d, version) ==
    {n \in DOMAIN d : parse_version(n) # None
                       /\ parse_version(n) + MAX_VERSION_FILES - 1 <= version}

\* fs::remove_file(entry.path()) in the loop of prune_old_versions: the
\* directory and the count afterwards; a file that is gone is not counted.
remove_file(d, name, deleted) ==
    IF name \in DOMAIN d THEN [dir |-> Remove(d, {name}), deleted |-> deleted + 1]
    ELSE [dir |-> d, deleted |-> deleted]

\* prune_old_versions is not running.
NoPrune == [entries |-> {}, deleted |-> 0]

\* The closure of tests::multiple_writes_detected: push the marker byte.
operator(data, m) == Append(data, m)

\* What the match in modify does with a compare_and_swap result:
\* "return" it to the caller or "continue" the loop.
\* Mutant of modify_match: every error is handed to the caller.
modify_match_noretry(res) == "return"

modify_match(res) ==
    IF res.kind = "Ok" THEN "return"
    ELSE IF res.kind = "AlreadyExists" THEN "continue"
    ELSE "return"

\* ------------------------------------------------------------ serde_json
\* File contents are bytes. modify_json is taken at T = Vec<i32>; an
\* Option<T> is a record.
NoVal == [some |-> FALSE, value |-> << >>]

Some(v) == [some |-> TRUE, value |-> v]

\* The bytes of "null".
NullText == <<110, 117, 108, 108>>

I32_MAX == <<2, 1, 4, 7, 4, 8, 3, 6, 4, 7>>

\* serde_json::to_writer of an i32, of the elements of a Vec<i32> and of
\* an Option<Vec<i32>>.
JsonNumber(n) ==
    LET ds == DigitsOf(IF n < 0 THEN 0 - n ELSE n)
        text == [i \in 1..Len(ds) |-> 48 + ds[i]]
    IN IF n < 0 THEN <<45>> \o text ELSE text

RECURSIVE JsonElements(_)
JsonElements(v) ==
    IF v = << >> THEN << >>
    ELSE IF Len(v) = 1 THEN JsonNumber(v[1])
    ELSE JsonNumber(Head(v)) \o <<44>> \o JsonElements(Tail(v))

to_writer(val) ==
    IF val.some THEN <<91>> \o JsonElements(val.value) \o <<93>> ELSE NullText

\* The result of a parsing step: the value and the position after it, or
\* the kind of the std::io::Error the serde_json error converts to
\* (UnexpectedEof for the end of the input, InvalidData for a syntax or
\* data error).
JsonOk(v, next) == [kind |-> "Ok", value |-> v, next |-> next]

JsonErr(kind) == [kind |-> kind, value |-> 0, next |-> 0]

IsJsonDigit(b) == b >= 48 /\ b <= 57

\* parse_whitespace: the first position from i on that holds no blank,
\* tab, line feed or carriage return.
RECURSIVE SkipWs(_, _)
SkipWs(s, i) ==
    IF i <= Len(s) /\ s[i] \in {32, 9, 10, 13} THEN SkipWs(s, i + 1) ELSE i

RECURSIVE DigitsEnd(_, _)
DigitsEnd(s, i) ==
    IF i <= Len(s) /\ IsJsonDigit(s[i]) THEN DigitsEnd(s, i + 1) ELSE i

\* parse_ident after an 'n' at position i: the input ends within "null",
\* or the literal is wrong, or it is a null where a number or a list is
\* expected.
ParseNull(s, i) ==
    IF \E k \in 1..3 : i + k > Len(s) /\ \A j \in 1..(k - 1) : s[i + j] = NullText[j + 1]
    THEN JsonErr("UnexpectedEof")
    ELSE JsonErr("InvalidData")

\* parse_exponent at the exponent letter at position e: the input ends
\* after the letter or after the sign, or the exponent has no digit, or
\* the number is a float, which is no i32.
ParseExponent(s, e) ==
    LET n == IF e + 1 <= Len(s) /\ s[e + 1] \in {43, 45} THEN e + 2 ELSE e + 1
    IN IF n > Len(s) THEN JsonErr("UnexpectedEof") ELSE JsonErr("InvalidData")

\* parse_number and the visitor of i32, after the digits `ds` that end
\* before position e: a fraction or an exponent makes a float, which is
\* no i32; "-0" is a float; the value has to fit an i32.
ParseNumberTail(s, e, positive, ds) ==
    IF e <= Len(s) /\ s[e] = 46
    THEN LET f == DigitsEnd(s, e + 1)
         IN IF f = e + 1
            THEN IF f > Len(s) THEN JsonErr("UnexpectedEof") ELSE JsonErr("InvalidData")
            ELSE IF f <= Len(s) /\ s[f] \in {69, 101} THEN ParseExponent(s, f)
            ELSE JsonErr("InvalidData")
    ELSE IF e <= Len(s) /\ s[e] \in {69, 101} THEN ParseExponent(s, e)
    ELSE IF positive
    THEN IF DigitsLeq(ds, I32_MAX) THEN JsonOk(DigitsValue(ds), e)
         ELSE JsonErr("InvalidData")
    ELSE IF ds = <<0>> THEN JsonErr("InvalidData")
    ELSE IF DigitsLeq(ds, I32_MAX) THEN JsonOk(0 - DigitsValue(ds), e)
    ELSE IF ds = <<2, 1, 4, 7, 4, 8, 3, 6, 4, 8>> THEN JsonOk((0 - 2147483647) - 1, e)
    ELSE JsonErr("InvalidData")

\* parse_integer at position i, after the sign.
ParseInteger(s, i, positive) ==
    IF i > Len(s) THEN JsonErr("UnexpectedEof")
    ELSE IF ~IsJsonDigit(s[i]) THEN JsonErr("InvalidData")
    ELSE IF s[i] = 48
    THEN IF i + 1 <= Len(s) /\ IsJsonDigit(s[i + 1]) THEN JsonErr("InvalidData")
         ELSE ParseNumberTail(s, i + 1, positive, <<0>>)
    ELSE LET e == DigitsEnd(s, i)
         IN ParseNumberTail(s, e, positive, [k \in 1..(e - i) |-> s[i + k - 1] - 48])

\* deserialize_i32 at the non-blank position k.
ParseI32(s, k) ==
    IF s[k] = 45 THEN ParseInteger(s, k + 1, FALSE)
    ELSE IF IsJsonDigit(s[k]) THEN ParseInteger(s, k, TRUE)
    ELSE IF s[k] = 110 THEN ParseNull(s, k)
    ELSE JsonErr("InvalidData")

\* SeqAccess::next_element_seed until the closing bracket, from position
\* i; `first` holds before the first element.
RECURSIVE ParseElements(_, _, _, _)
ParseElements(s, i, first, acc) ==
    LET j == SkipWs(s, i)
        k == IF j <= Len(s) /\ s[j] = 44 /\ ~first THEN SkipWs(s, j + 1) ELSE j
    IN IF j > Len(s) THEN JsonErr("UnexpectedEof")
       ELSE IF s[j] = 93 THEN JsonOk(acc, j + 1)
       ELSE IF s[j] # 44 /\ ~first THEN JsonErr("InvalidData")
       ELSE IF k > Len(s) THEN JsonErr("UnexpectedEof")
       ELSE IF s[k] = 93 THEN JsonErr("InvalidData")
       ELSE LET r == ParseI32(s, k)
            IN IF r.kind # "Ok" THEN r
               ELSE ParseElements(s, r.next, FALSE, Append(acc, r.value))

\* serde_json::from_reader::<Vec<i32>> on the bytes s. Bytes that begin a
\* string, an object or a boolean literal are left out of the inputs.
from_reader(s) ==
    LET j == SkipWs(s, 1)
    IN IF j > Len(s) THEN JsonErr("UnexpectedEof")
       ELSE IF s[j] = 91
       THEN LET r == ParseElements(s, j + 1, TRUE, << >>)
            IN IF r.kind # "Ok" THEN r
               ELSE IF SkipWs(s, r.next) <= Len(s) THEN JsonErr("InvalidData")
               ELSE r
       ELSE IF s[j] = 45 \/ IsJsonDigit(s[j])
       THEN IF ParseI32(s, j).kind = "UnexpectedEof" THEN JsonErr("UnexpectedEof")
            ELSE JsonErr("InvalidData")
       ELSE IF s[j] = 110 THEN ParseNull(s, j)
       ELSE JsonErr("InvalidData")

\* The closure given to modify_json: push the marker to the list, which
\* starts empty.
operator_json(val, m) == Some(Append(IF val.some THEN val.value ELSE << >>, m))

\* ------------------------------------------------------------- actions
NoFile == ReadOnlyFile(0, path(0, 0))
NoRes == [kind |-> "none", n |-> 0]

AfInit(prefixes) ==
    /\ dir = << >>
    /\ prefixOf \in prefixes
    /\ directory = Directory
    /\ helper = [w \in Writers |-> "none"]
    /\ pruning = [w \in Writers |-> NoPrune]
    /\ pc = [w \in Writers |-> "idle"]
    /\ cur = [w \in Writers |-> NoFile]
    /\ buf = [w \in Writers |-> << >>]
    /\ lv = [w \in Writers |-> 0]
    /\ casres = [w \in Writers |-> NoRes]
    /\ marker = [w \in Writers |-> 0]
    /\ ncalls = 0
    /\ late = 0
    /\ outcome = << >>
    /\ faults = 0

\* A caller enters modify (or the load / compare_and_swap sequence of the
\* tests) with a fresh marker byte.
Start(w, limit) ==
    /\ pc[w] = "idle"
    /\ ncalls < limit
    /\ ncalls' = ncalls + 1
    /\ marker' = [marker EXCEPT ![w] = ncalls + 1]
    /\ helper' = [helper EXCEPT ![w] = "modify"]
    /\ pc' = [pc EXCEPT ![w] = "load"]
    /\ UNCHANGED <<dir, prefixOf, directory, pruning, cur, buf, lv, casres, late, outcome, faults, ixvars>>

\* A caller enters modify_json with a fresh marker.
StartJson(w, limit) ==
    /\ pc[w] = "idle"
    /\ ncalls < limit
    /\ ncalls' = ncalls + 1
    /\ marker' = [marker EXCEPT ![w] = ncalls + 1]
    /\ helper' = [helper EXCEPT ![w] = "modify_json"]
    /\ pc' = [pc EXCEPT ![w] = "load"]
    /\ UNCHANGED <<dir, prefixOf, directory, pruning, cur, buf, lv, casres, late, outcome, faults, ixvars>>

\* Callers that share one AtomicFile are interchangeable threads: the next
\* call runs on the lowest free thread. At most MaxLateCalls calls start
\* while another call is running.
StartLowest(w, limit) ==
    /\ \A v \in Writers : v < w => pc[v] # "idle"
    /\ w > 1 => late < MaxLateCalls
    /\ pc[w] = "idle"
    /\ ncalls < limit
    /\ ncalls' = ncalls + 1
    /\ late' = IF w > 1 THEN late + 1 ELSE late
    /\ marker' = [marker EXCEPT ![w] = ncalls + 1]
    /\ helper' = [helper EXCEPT ![w] = "modify"]
    /\ pc' = [pc EXCEPT ![w] = "load"]
    /\ UNCHANGED <<dir, prefixOf, directory, pruning, cur, buf, lv, casres, outcome, faults, ixvars>>

\* The call of writer w returns `kind` to its caller; its locals go out of
\* scope.
Return(w, kind) ==
    /\ pc' = [pc EXCEPT ![w] = "idle"]
    /\ outcome' = Put(outcome, marker[w], kind)
    /\ cur' = [cur EXCEPT ![w] = NoFile]
    /\ buf' = [buf EXCEPT ![w] = << >>]
    /\ lv' = [lv EXCEPT ![w] = 0]
    /\ casres' = [casres EXCEPT ![w] = NoRes]
    /\ marker' = [marker EXCEPT ![w] = 0]
    /\ helper' = [helper EXCEPT ![w] = "none"]

\* let latest = atomic_file.load()?; with the directory listed as `entries`.
LoadWith(w, entries) ==
    /\ pc[w] = "load"
    /\ LET r == load(entries, directory, prefixOf[w])
       IN IF r.ok
          THEN /\ cur' = [cur EXCEPT ![w] = r.file]
               /\ pc' = [pc EXCEPT ![w] = "open"]
               /\ UNCHANGED <<outcome, buf, lv, casres, marker, helper>>
          ELSE Return(w, r.kind)
    /\ UNCHANGED <<dir, prefixOf, directory, pruning, ncalls, late, faults, ixvars>>

Load(w) ==
    /\ pc[w] = "load"
    /\ \E entries \in ReadDir(dir) : LoadWith(w, entries)

\* load() with the directory listed in any order of all its entries.
LoadAnyOrder(w) ==
    /\ pc[w] = "load"
    /\ \E entries \in Listings(DOMAIN dir) : LoadWith(w, entries)

\* ReadOnlyFile::open: no file for version 0, else the file at the path
\* (NotFound when it is gone).
open(d, file) ==
    IF file.version # 0
    THEN IF file.path \in DOMAIN d
         THEN [ok |-> TRUE, some |-> TRUE, data |-> d[file.path]]
         ELSE [ok |-> FALSE, kind |-> "NotFound"]
    ELSE [ok |-> TRUE, some |-> FALSE, data |-> << >>]

\* Mutant of ReadToBuf: buf is not cleared between iterations.
ReadToBuf_noclear(prev, data) == prev \o data

\* buf.clear() and file.read_to_end(&mut buf): buf after the read.
ReadToBuf(prev, data) == data

\* modify: read the latest content into buf, apply the operator, make_temp
\* and write the result to the scratch file.
Stage(w) ==
    /\ pc[w] = "open"
    /\ helper[w] = "modify"
    /\ LET r == open(dir, cur[w])
       IN IF r.ok
          THEN /\ buf' = [buf EXCEPT ![w] = ReadToBuf(buf[w], r.data)]
               /\ dir' = Put(dir, ScratchName(w),
                             operator(ReadToBuf(buf[w], r.data), marker[w]))
               /\ pc' = [pc EXCEPT ![w] = "check"]
               /\ UNCHANGED <<outcome, cur, lv, casres, marker, helper>>
          ELSE /\ Return(w, r.kind)
               /\ UNCHANGED dir
    /\ UNCHANGED <<prefixOf, directory, pruning, ncalls, late, faults, ixvars>>

\* modify_json: read and decode the latest content, apply the operator,
\* make_temp and write the encoded result to the scratch file. An error
\* of open or of the decoding is returned before the operator runs.
StageJson(w) ==
    /\ pc[w] = "open"
    /\ helper[w] = "modify_json"
    /\ LET r == open(dir, cur[w])
           parsed == IF r.ok /\ r.some THEN from_reader(r.data) ELSE JsonOk(<< >>, 0)
           val == IF r.ok /\ r.some THEN Some(parsed.value) ELSE NoVal
       IN IF ~r.ok
          THEN /\ Return(w, r.kind)
               /\ UNCHANGED dir
          ELSE IF parsed.kind # "Ok"
          THEN /\ Return(w, parsed.kind)
               /\ UNCHANGED dir
          ELSE /\ dir' = Put(dir, ScratchName(w), to_writer(operator_json(val, marker[w])))
               /\ pc' = [pc EXCEPT ![w] = "check"]
               /\ UNCHANGED <<outcome, cur, buf, lv, casres, marker, helper>>
    /\ UNCHANGED <<prefixOf, directory, pruning, ncalls, late, faults, ixvars>>

\* tests::failed_to_write_simultaneously / delete_old_files: the scratch
\* content does not depend on the current version.
StageFixed(w) ==
    /\ pc[w] = "open"
    /\ dir' = Put(dir, ScratchName(w), <<marker[w]>>)
    /\ pc' = [pc EXCEPT ![w] = "check"]
    /\ UNCHANGED <<prefixOf, directory, pruning, cur, buf, lv, casres, marker, helper, ncalls, late, outcome, faults, ixvars>>

\* compare_and_swap up to the staleness check; a failed call drops the
\* scratch file.
Check(w) ==
    /\ pc[w] = "check"
    /\ \E entries \in ReadDir(dir) :
       LET latest == latest_version(entries).version
       IN IF CheckPasses(latest, cur[w].version)
          THEN /\ lv' = [lv EXCEPT ![w] = latest]
               /\ pc' = [pc EXCEPT ![w] = "link"]
               /\ UNCHANGED <<dir, casres>>
          ELSE /\ casres' = [casres EXCEPT ![w] = [kind |-> "AlreadyExists", n |-> 0]]
               /\ dir' = Remove(dir, {ScratchName(w)})
               /\ pc' = [pc EXCEPT ![w] = "ret"]
               /\ UNCHANGED lv
    /\ UNCHANGED <<prefixOf, directory, pruning, cur, buf, marker, helper, ncalls, late, outcome, faults, ixvars>>

\* std::fs::hard_link(&new.path, new_path)
Link(w) ==
    /\ pc[w] = "link"
    /\ LET r == hard_link(dir, ScratchName(w), path(prefixOf[w], cur[w].version + 1))
       IN IF r.ok
          THEN /\ dir' = r.dir
               /\ pc' = [pc EXCEPT ![w] = "prune"]
               /\ UNCHANGED casres
          ELSE /\ casres' = [casres EXCEPT ![w] = [kind |-> r.kind, n |-> 0]]
               /\ dir' = Remove(dir, {ScratchName(w)})
               /\ pc' = [pc EXCEPT ![w] = "ret"]
    /\ UNCHANGED <<prefixOf, directory, pruning, cur, buf, lv, marker, helper, ncalls, late, outcome, faults, ixvars>>

\* hard_link fails with an I/O error other than EEXIST and creates nothing.
LinkFault(w) ==
    /\ pc[w] = "link"
    /\ faults < MaxFaults
    /\ faults' = faults + 1
    /\ casres' = [casres EXCEPT ![w] = [kind |-> "Other", n |-> 0]]
    /\ dir' = Remove(dir, {ScratchName(w)})
    /\ pc' = [pc EXCEPT ![w] = "ret"]
    /\ UNCHANGED <<prefixOf, directory, pruning, cur, buf, lv, marker, helper, ncalls, late, outcome, ixvars>>

\* `#[cfg(target_os = "unix")]`: no target has this target_os (unix is a
\* target_family), so the item it guards is compiled for no target.
target_os_unix == FALSE

\* What compare_and_swap does with an error of hard_link, given the link
\* count of the scratch file: go on as after a successful link, or return
\* the error.
link_error(nlink, err) ==
    IF target_os_unix
    THEN IF nlink # 2 THEN [go_on |-> FALSE, kind |-> err] ELSE [go_on |-> TRUE, kind |-> "Ok"]
    ELSE [go_on |-> FALSE, kind |-> err]

\* hard_link reports an I/O error although the link has been created (as
\* with a lost reply on a network file system): the scratch file has two
\* links.
LinkFaultLinked(w) ==
    /\ pc[w] = "link"
    /\ faults < MaxFaults
    /\ path(prefixOf[w], cur[w].version + 1) \notin DOMAIN dir
    /\ faults' = faults + 1
    /\ LET linked == Put(dir, path(prefixOf[w], cur[w].version + 1), dir[ScratchName(w)])
           r == link_error(2, "Other")
       IN IF r.go_on
          THEN /\ dir' = linked
               /\ pc' = [pc EXCEPT ![w] = "prune"]
               /\ UNCHANGED casres
          ELSE /\ casres' = [casres EXCEPT ![w] = [kind |-> r.kind, n |-> 0]]
               /\ dir' = Remove(linked, {ScratchName(w)})
               /\ pc' = [pc EXCEPT ![w] = "ret"]
    /\ UNCHANGED <<prefixOf, directory, pruning, cur, buf, lv, marker, helper, ncalls, late, outcome, ixvars>>

\* compare_and_swap returns Ok(deleted) once the loop of
\* prune_old_versions over directory d is over; the scratch file drops. As
\* in every other return of compare_and_swap the drop belongs to the step
\* before it: no operation reads the name of a scratch file.
PruneReturn(w, d, deleted) ==
    /\ dir' = Remove(d, {ScratchName(w)})
    /\ casres' = [casres EXCEPT ![w] = [kind |-> "Ok", n |-> deleted]]
    /\ pruning' = [pruning EXCEPT ![w] = NoPrune]
    /\ pc' = [pc EXCEPT ![w] = "ret"]

\* prune_old_versions(latest_version): fs::read_dir lists the directory;
\* the entries the loop will try to remove are those of PruneSet.
PruneList(w) ==
    /\ pc[w] = "prune"
    /\ IF PruneSet(dir, lv[w]) = {}
       THEN PruneReturn(w, dir, 0)
       ELSE /\ pruning' = [pruning EXCEPT ![w] = [entries |-> PruneSet(dir, lv[w]),
                                                  deleted |-> 0]]
            /\ pc' = [pc EXCEPT ![w] = "remove"]
            /\ UNCHANGED <<dir, casres>>
    /\ UNCHANGED <<prefixOf, directory, cur, buf, lv, marker, helper, ncalls, late, outcome,
                   faults, ixvars>>

\* One round of the loop of prune_old_versions: fs::remove_file on one of
\* the listed entries that are old enough, counted when it succeeds.
PruneRemove(w) ==
    /\ pc[w] = "remove"
    /\ \E name \in pruning[w].entries :
          LET r == remove_file(dir, name, pruning[w].deleted)
          IN IF pruning[w].entries = {name}
             THEN PruneReturn(w, r.dir, r.deleted)
             ELSE /\ dir' = r.dir
                  /\ pruning' = [pruning EXCEPT ![w] = [entries |-> pruning[w].entries \ {name},
                                                        deleted |-> r.deleted]]
                  /\ UNCHANGED <<pc, casres>>
    /\ UNCHANGED <<prefixOf, directory, cur, buf, lv, marker, helper, ncalls, late, outcome,
                   faults, ixvars>>

\* Ok(self.prune_old_versions(latest_version)), one step at a time: the
\* listing, then one round of the loop per step.
Prune(w) ==
    /\ pc[w] \in {"prune", "remove"}
    /\ IF pc[w] = "prune" THEN PruneList(w) ELSE PruneRemove(w)

\* The match on the compare_and_swap result in modify.
ModifyMatch(w) ==
    /\ pc[w] = "ret"
    /\ IF modify_match(casres[w]) = "continue"
       THEN /\ pc' = [pc EXCEPT ![w] = "load"]
            /\ UNCHANGED <<outcome, cur, buf, lv, casres, marker, helper>>
       ELSE Return(w, casres[w].kind)
    /\ UNCHANGED <<dir, prefixOf, directory, pruning, ncalls, late, faults, ixvars>>

\* tests::failed_to_write_simultaneously: the thread ends with the
\* compare_and_swap result as it is.
CasReturn(w) ==
    /\ pc[w] = "ret"
    /\ pc' = [pc EXCEPT ![w] = "done"]
    /\ outcome' = Put(outcome, marker[w], casres[w].kind)
    /\ UNCHANGED <<dir, prefixOf, directory, pruning, cur, buf, lv, casres, marker, helper, ncalls, late, faults, ixvars>>

\* tests::delete_old_files: compare_and_swap(..).unwrap() and the next
\* round of the loop.
CasUnwrap(w) ==
    /\ pc[w] = "ret"
    /\ casres[w].kind = "Ok"
    /\ Return(w, casres[w].kind)
    /\ UNCHANGED <<dir, prefixOf, directory, pruning, ncalls, late, faults, ixvars>>

\* ------------------------------------------------------- resource index
\* Times are counted in ticks of half a millisecond.
TicksPerMs == 2

RESOURCE_UPDATED_THRESHOLD == 1 * TicksPerMs

Paths == 1..NPaths

\* File contents: 0 is the empty file, 1..NContents are distinct non-empty
\* byte strings.
Contents == 0..NContents

NoEntry == [kind |-> "none", content |-> 0, mtime |-> 0]
DirEntry == [kind |-> "dir", content |-> 0, mtime |-> 0]
FileEntry(c, t) == [kind |-> "file", content |-> c, mtime |-> t]

\* metadata.len()
SizeOf(c) == IF c = 0 THEN 0 ELSE 9 + c

\* ResourceId::compute(size, path): the size and the digest of the bytes.
compute(c) == [data_size |-> SizeOf(c), hash |-> 100 + c]

\* Truncation of a modification time to whole milliseconds.
TruncMs(t) == (t \div TicksPerMs) * TicksPerMs

scan_entry_anysize(f) ==
    IF f.kind = "dir" THEN [ok |-> FALSE, kind |-> "Path"]
    ELSE [ok |-> TRUE, entry |-> [id |-> compute(f.content), modified |-> TruncMs(f.mtime)]]

\* scan_entry
scan_entry(f) ==
    IF f.kind = "dir" THEN [ok |-> FALSE, kind |-> "Path"]
    ELSE IF SizeOf(f.content) = 0 THEN [ok |-> FALSE, kind |-> "Path"]
    ELSE [ok |-> TRUE, entry |-> [id |-> compute(f.content), modified |-> TruncMs(f.mtime)]]

\* discover_files: every path under the root that is no directory.
discover_files(tree) == {q \in Paths : tree[q].kind = "file"}

\* scan_entries: the paths of `paths` that scan_entry accepts.
scan_entries(tree, paths) == {q \in paths : scan_entry(tree[q]).ok}

\* usize::MAX, written as the largest integer of the model checker.
USIZE_MAX == 2147483647

\* `*n -= 1` on a usize where overflow is not checked.
wrapping_dec(n) == IF n = 0 THEN USIZE_MAX ELSE n - 1

\* `*n += 1` on a usize: at usize::MAX the build that checks overflow
\* (`dbg`) panics and leaves n as it is, the other build wraps to 0.
add_assign_1(n, dbg) ==
    IF n = USIZE_MAX
    THEN IF dbg THEN [panic |-> TRUE, value |-> n] ELSE [panic |-> FALSE, value |-> 0]
    ELSE [panic |-> FALSE, value |-> n + 1]

Index(p2i, i2p, col) == [path2id |-> p2i, id2path |-> i2p, collisions |-> col]

EmptyIndex == Index(<< >>, << >>, << >>)

\* An index with the flag of a panic that stopped the operation on it.
Sound(ix) == [ix |-> ix, panic |-> FALSE]

insert_entry_from1(ix, q, entry, dbg) ==
    LET id == entry.id
    IN IF id \notin DOMAIN ix.id2path
       THEN Sound(Index(Put(ix.path2id, q, entry), Put(ix.id2path, id, q), ix.collisions))
       ELSE IF id \in DOMAIN ix.collisions
       THEN LET n == add_assign_1(ix.collisions[id], dbg)
            IN IF n.panic THEN [ix |-> ix, panic |-> TRUE]
               ELSE Sound(Index(Put(ix.path2id, q, entry), ix.id2path,
                                Put(ix.collisions, id, n.value)))
       ELSE Sound(Index(Put(ix.path2id, q, entry), ix.id2path, Put(ix.collisions, id, 1)))

\* ResourceIndex::insert_entry; a panic of `*nonempty += 1` comes before
\* the path is inserted.
insert_entry(ix, q, entry, dbg) ==
    LET id == entry.id
    IN IF id \notin DOMAIN ix.id2path
       THEN Sound(Index(Put(ix.path2id, q, entry), Put(ix.id2path, id, q), ix.collisions))
       ELSE IF id \in DOMAIN ix.collisions
       THEN LET n == add_assign_1(ix.collisions[id], dbg)
            IN IF n.panic THEN [ix |-> ix, panic |-> TRUE]
               ELSE Sound(Index(Put(ix.path2id, q, entry), ix.id2path,
                                Put(ix.collisions, id, n.value)))
       ELSE Sound(Index(Put(ix.path2id, q, entry), ix.id2path, Put(ix.collisions, id, 2)))

\* for (path, entry) in entries { index.insert_entry(path, entry) } over
\* the paths of `order`, each with its entry in `entries`; a panic ends
\* the loop.
RECURSIVE InsertAll(_, _, _, _)
InsertAll(st, order, entries, dbg) ==
    IF st.panic \/ order = << >> THEN st
    ELSE InsertAll(insert_entry(st.ix, Head(order), entries[Head(order)], dbg),
                   Tail(order), entries, dbg)

Scanned(tree, paths) == [q \in scan_entries(tree, paths) |-> scan_entry(tree[q]).entry]

\* ResourceIndex::build, the scanned entries inserted in `order`.
build(tree, order, dbg) ==
    InsertAll(Sound(EmptyIndex), order, Scanned(tree, discover_files(tree)), dbg)

\* One round of the deletion loop of update_all: path q leaves the index.
DeletePath(st, q) ==
    IF q \in DOMAIN st.ix.path2id
    THEN LET id == st.ix.path2id[q].id
             k == IF id \in DOMAIN st.ix.collisions THEN st.ix.collisions[id] ELSE 1
         IN IF k > 1
            THEN [ix |-> Index(Remove(st.ix.path2id, {q}), st.ix.id2path,
                               Put(st.ix.collisions, id, k - 1)),
                  deleted |-> st.deleted]
            ELSE [ix |-> Index(Remove(st.ix.path2id, {q}), Remove(st.ix.id2path, {id}),
                               Remove(st.ix.collisions, {id})),
                  deleted |-> st.deleted \cup {id}]
    ELSE st

RECURSIVE DeleteAll(_, _)
DeleteAll(st, order) ==
    IF order = << >> THEN st ELSE DeleteAll(DeletePath(st, Head(order)), Tail(order))

UpdatedPaths_always(ix, tree) ==
    {q \in discover_files(tree) \cap DOMAIN ix.path2id :
        tree[q].mtime - ix.path2id[q].modified >= 0}

\* The preserved paths update_all takes as updated.
UpdatedPaths(ix, tree) ==
    {q \in discover_files(tree) \cap DOMAIN ix.path2id :
        tree[q].mtime - ix.path2id[q].modified >= RESOURCE_UPDATED_THRESHOLD}

\* curr_modified.duration_since(prev_modified) fails for some preserved path.
SystemTimeError(ix, tree) ==
    \E q \in discover_files(tree) \cap DOMAIN ix.path2id :
        tree[q].mtime < ix.path2id[q].modified

NoUpdate == [ok |-> TRUE, kind |-> "Ok", deleted |-> {}, added |-> << >>]

Failure(kind) == [ok |-> FALSE, kind |-> kind, deleted |-> {}, added |-> << >>]

\* paths_to_delete of update_all: the vanished paths, then the updated ones.
PathsToDelete(ix, tree) ==
    SetToSeq((DOMAIN ix.path2id) \ discover_files(tree)) \o SetToSeq(UpdatedPaths(ix, tree))

\* The index of update_all after its deletion loop, with the deleted ids.
AfterDeletion(ix, tree) == DeleteAll([ix |-> ix, deleted |-> {}], PathsToDelete(ix, tree))

\* updated_entries of update_all, extended by created_entries.
FreshEntries(ix, tree) ==
    Scanned(tree, UpdatedPaths(ix, tree) \cup (discover_files(tree) \ DOMAIN ix.path2id))

\* Mutant of AddedPaths: every fresh entry is added.
AddedPaths_all(ix, tree) == DOMAIN FreshEntries(ix, tree)

\* The paths of `added` in update_all: fresh entries whose id the index
\* does not hold after the deletions.
AddedPaths(ix, tree) ==
    LET fresh == FreshEntries(ix, tree)
        kept == DOMAIN AfterDeletion(ix, tree).ix.id2path
    IN {q \in DOMAIN fresh : fresh[q].id \notin kept}

\* ResourceIndex::update_all; `insorder` is the order in which the hash
\* map `added` is iterated.
update_all(ix, tree, insorder, dbg) ==
    IF SystemTimeError(ix, tree)
    THEN [ix |-> ix, update |-> Failure("Other"), panic |-> FALSE]
    ELSE LET del == AfterDeletion(ix, tree)
             fresh == FreshEntries(ix, tree)
             ins == InsertAll(Sound(del.ix), insorder, fresh, dbg)
         IN IF ins.panic THEN [ix |-> ins.ix, update |-> Failure("panic"), panic |-> TRUE]
            ELSE [ix |-> ins.ix,
                  update |-> [ok |-> TRUE, kind |-> "Ok", deleted |-> del.deleted,
                              added |-> [q \in AddedPaths(ix, tree) |-> fresh[q].id]],
                  panic |-> FALSE]

\* ResourceIndex::index_new
index_new(ix, tree, q, dbg) ==
    IF tree[q].kind = "none" THEN [ix |-> ix, update |-> Failure("Path"), panic |-> FALSE]
    ELSE LET r == scan_entry(tree[q])
         IN IF ~r.ok THEN [ix |-> ix, update |-> Failure(r.kind), panic |-> FALSE]
            ELSE LET id == r.entry.id
                     n == IF id \in DOMAIN ix.collisions
                          THEN add_assign_1(ix.collisions[id], dbg)
                          ELSE [panic |-> FALSE, value |-> 0]
                 IN IF n.panic THEN [ix |-> ix, update |-> Failure("panic"), panic |-> TRUE]
                    ELSE [ix |-> Index(Put(ix.path2id, q, r.entry),
                                       Put(ix.id2path, id, q),
                                       IF id \in DOMAIN ix.collisions
                                       THEN Put(ix.collisions, id, n.value)
                                       ELSE ix.collisions),
                          update |-> [ok |-> TRUE, kind |-> "Ok", deleted |-> {},
                                      added |-> Put(<< >>, q, id)],
                          panic |-> FALSE]

\* ResourceIndex::forget_id
forget_id(ix, old_id) ==
    [ix |-> Index(Remove(ix.path2id, {q \in DOMAIN ix.path2id : ix.path2id[q].id = old_id}),
                  Remove(ix.id2path, {old_id}),
                  ix.collisions),
     update |-> [ok |-> TRUE, kind |-> "Ok", deleted |-> {old_id}, added |-> << >>],
     panic |-> FALSE]

\* ResourceIndex::forget_path; `dbg` tells whether debug_assert! (and
\* arithmetic overflow) is checked.
\* A failed assertion leaves the index as it is at that point.
forget_path(ix, q, old_id, dbg) ==
    LET p2i == Remove(ix.path2id, {q})
    IN IF old_id \in DOMAIN ix.collisions
       THEN IF dbg /\ ~(ix.collisions[old_id] > 1)
            THEN [ix |-> Index(p2i, ix.id2path, ix.collisions),
                  update |-> Failure("panic"), panic |-> TRUE]
            ELSE LET k == wrapping_dec(ix.collisions[old_id])
                     col == IF k = 1 THEN Remove(ix.collisions, {old_id})
                            ELSE Put(ix.collisions, old_id, k)
                 IN IF old_id \in DOMAIN ix.id2path
                    THEN IF dbg /\ ix.id2path[old_id] # q
                         THEN [ix |-> Index(p2i, ix.id2path, col),
                               update |-> Failure("panic"), panic |-> TRUE]
                         ELSE [ix |-> Index(p2i, ix.id2path, col),
                               update |-> [ok |-> TRUE, kind |-> "Ok",
                                           deleted |-> {old_id}, added |-> << >>],
                               panic |-> FALSE]
                    ELSE [ix |-> Index(p2i, ix.id2path, col),
                          update |-> Failure("Collision"), panic |-> FALSE]
       ELSE [ix |-> Index(p2i, Remove(ix.id2path, {old_id}), ix.collisions),
             update |-> [ok |-> TRUE, kind |-> "Ok", deleted |-> {old_id}, added |-> << >>],
             panic |-> FALSE]

update_one_quiet(ix, tree, q, old_id, dbg) ==
    IF tree[q].kind = "none" THEN forget_id(ix, old_id)
    ELSE LET r == scan_entry(tree[q])
         IN IF ~r.ok THEN forget_path(ix, q, old_id, dbg)
            ELSE IF q \notin DOMAIN ix.path2id
            THEN [ix |-> ix, update |-> Failure("Path"), panic |-> FALSE]
            ELSE IF ix.path2id[q].id = r.entry.id
            THEN [ix |-> ix, update |-> NoUpdate, panic |-> FALSE]
            ELSE LET f == forget_path(ix, q, old_id, dbg)
                 IN IF ~f.update.ok THEN f
                    ELSE LET ins == insert_entry(f.ix, q, r.entry, dbg)
                         IN IF ins.panic
                            THEN [ix |-> ins.ix, update |-> Failure("panic"), panic |-> TRUE]
                            ELSE [ix |-> ins.ix,
                                  update |-> [f.update EXCEPT
                                                 !.added = Put(<< >>, q, r.entry.id)],
                                  panic |-> FALSE]

\* ResourceIndex::update_one
update_one(ix, tree, q, old_id, dbg) ==
    IF tree[q].kind = "none" THEN forget_id(ix, old_id)
    ELSE LET r == scan_entry(tree[q])
         IN IF ~r.ok THEN forget_path(ix, q, old_id, dbg)
            ELSE IF q \notin DOMAIN ix.path2id
            THEN [ix |-> ix, update |-> Failure("Path"), panic |-> FALSE]
            ELSE IF ix.path2id[q].id = r.entry.id
            THEN [ix |-> ix, update |-> Failure("Collision"), panic |-> FALSE]
            ELSE LET f == forget_path(ix, q, old_id, dbg)
                 IN IF ~f.update.ok THEN f
                    ELSE LET ins == insert_entry(f.ix, q, r.entry, dbg)
                         IN IF ins.panic
                            THEN [ix |-> ins.ix, update |-> Failure("panic"), panic |-> TRUE]
                            ELSE [ix |-> ins.ix,
                                  update |-> [f.update EXCEPT
                                                 !.added = Put(<< >>, q, r.entry.id)],
                                  panic |-> FALSE]

\* The key store sorts by: IndexEntry orders by modified, then by id.
EntryLess(a, b) ==
    \/ a.modified < b.modified
    \/ a.modified = b.modified /\ a.id.data_size < b.id.data_size
    \/ a.modified = b.modified /\ a.id.data_size = b.id.data_size /\ a.id.hash < b.id.hash

\* The orders in which store can write the entries: sorted by entry, equal
\* entries in the order of the hash map.
StoreOrders(p2i) ==
    {l \in Listings(DOMAIN p2i) :
        \A i, j \in 1..Len(l) : i < j => ~EntryLess(p2i[l[j]], p2i[l[i]])}

\* One line of the index file: "<milliseconds> <id> <relative path>".
Line(q, entry) == [timestamp |-> entry.modified \div TicksPerMs, id |-> entry.id, path |-> q]

\* ResourceIndex::store, writing the entries in `order`.
store(p2i, order) ==
    [exists |-> TRUE, lines |-> [i \in 1..Len(order) |-> Line(order[i], p2i[order[i]])]]

\* The entry a line of the index file is parsed to.
ParseLine(line) == [id |-> line.id, modified |-> line.timestamp * TicksPerMs]

\* ResourceIndex::load over the lines of the index file: the lines whose
\* path does not exist are skipped.
RECURSIVE LoadLines(_, _, _, _)
LoadLines(st, lines, tree, dbg) ==
    IF st.panic \/ lines = << >> THEN st
    ELSE LoadLines(IF tree[Head(lines).path].kind = "none" THEN st
                   ELSE insert_entry(st.ix, Head(lines).path, ParseLine(Head(lines)), dbg),
                   Tail(lines), tree, dbg)

\* ResourceIndex::load of the stored lines into an empty index.
Loaded(store_, tree, dbg) == LoadLines(Sound(EmptyIndex), store_.lines, tree, dbg)

\* $root/.ark/index does not exist.
NoStore == [exists |-> FALSE, lines |-> << >>]

IxInit ==
    /\ fs = [q \in Paths |-> NoEntry]
    /\ path2id = << >>
    /\ id2path = << >>
    /\ collisions = << >>
    /\ stored = NoStore
    /\ upd = NoUpdate
    /\ panicked = FALSE
    /\ nfs = 0

TheIndex == Index(path2id, id2path, collisions)

\* The index becomes ix; the collision counts explored stay within
\* MaxCount, or at the value an unchecked decrement of 0 wraps to.
SetIndex(ix) ==
    /\ \A id \in DOMAIN ix.collisions :
          ix.collisions[id] <= MaxCount \/ ix.collisions[id] = USIZE_MAX
    /\ path2id' = ix.path2id
    /\ id2path' = ix.id2path
    /\ collisions' = ix.collisions

\* The caller's contract "the index is up-to-date except for this single
\* path": every other path is indexed exactly when it holds a resource, and
\* then under the id of its content.
UpToDateExcept(q) ==
    \A r \in Paths \ {q} :
        /\ (r \in DOMAIN path2id) <=> scan_entry(fs[r]).ok
        /\ r \in DOMAIN path2id => path2id[r].id = scan_entry(fs[r]).entry.id

\* The file system under the root changes.
WriteFile(q, c, t) ==
    /\ ~panicked
    /\ fs[q].kind # "dir"
    /\ fs' = [fs EXCEPT ![q] = FileEntry(c, t)]
    /\ nfs < MaxFsOps
    /\ nfs' = nfs + 1
    /\ UNCHANGED <<path2id, id2path, collisions, stored, upd, panicked, debug_assertions, afvars>>

RemovePath(q) ==
    /\ ~panicked
    /\ fs[q].kind # "none"
    /\ fs' = [fs EXCEPT ![q] = NoEntry]
    /\ nfs < MaxFsOps
    /\ nfs' = nfs + 1
    /\ UNCHANGED <<path2id, id2path, collisions, stored, upd, panicked, debug_assertions, afvars>>

MakeDir(q) ==
    /\ ~panicked
    /\ fs[q].kind = "none"
    /\ fs' = [fs EXCEPT ![q] = DirEntry]
    /\ nfs < MaxFsOps
    /\ nfs' = nfs + 1
    /\ UNCHANGED <<path2id, id2path, collisions, stored, upd, panicked, debug_assertions, afvars>>

\* std::fs::rename: the file at q moves to the free path q2.
Rename(q, q2) ==
    /\ ~panicked
    /\ fs[q].kind = "file"
    /\ fs[q2].kind = "none"
    /\ fs' = [fs EXCEPT ![q] = NoEntry, ![q2] = fs[q]]
    /\ nfs < MaxFsOps
    /\ nfs' = nfs + 1
    /\ UNCHANGED <<path2id, id2path, collisions, stored, upd, panicked, debug_assertions, afvars>>

Build ==
    /\ ~panicked
    /\ \E order \in Listings(scan_entries(fs, discover_files(fs))) :
           LET r == build(fs, order, debug_assertions)
           IN /\ SetIndex(r.ix)
              /\ panicked' = r.panic
              /\ upd' = IF r.panic THEN Failure("panic") ELSE NoUpdate
    /\ UNCHANGED <<fs, stored, debug_assertions, afvars, nfs>>

Store ==
    /\ ~panicked
    /\ nfs < MaxFsOps
    /\ nfs' = nfs + 1
    /\ \E order \in StoreOrders(path2id) : stored' = store(path2id, order)
    /\ UNCHANGED <<fs, path2id, id2path, collisions, upd, panicked, debug_assertions, afvars>>

LoadIndex ==
    /\ ~panicked
    /\ IF ~stored.exists
       THEN /\ upd' = Failure("Io")
            /\ UNCHANGED <<path2id, id2path, collisions>>
            /\ UNCHANGED panicked
       ELSE LET r == Loaded(stored, fs, debug_assertions)
            IN /\ SetIndex(r.ix)
               /\ panicked' = r.panic
               /\ upd' = IF r.panic THEN Failure("panic") ELSE NoUpdate
    /\ UNCHANGED <<fs, stored, debug_assertions, afvars, nfs>>

UpdateAll ==
    /\ ~panicked
    /\ \E insorder \in Listings(AddedPaths(TheIndex, fs)) :
           LET r == update_all(TheIndex, fs, insorder, debug_assertions)
           IN /\ SetIndex(r.ix)
              /\ upd' = r.update
              /\ panicked' = r.panic
    /\ UNCHANGED <<fs, stored, debug_assertions, afvars, nfs>>

\* ResourceIndex::provide; when update_all fails the caller gets the error
\* and no index.
Provide ==
    /\ ~panicked
    /\ IF ~stored.exists
       THEN /\ \E order \in Listings(scan_entries(fs, discover_files(fs))) :
                   LET r == build(fs, order, debug_assertions)
                   IN /\ SetIndex(r.ix)
                      /\ panicked' = r.panic
                      /\ upd' = IF r.panic THEN Failure("panic") ELSE NoUpdate
            /\ UNCHANGED <<stored, nfs>>
       ELSE /\ nfs < MaxFsOps
            /\ LET loaded == Loaded(stored, fs, debug_assertions)
               IN IF loaded.panic
                  THEN /\ upd' = Failure("panic")
                       /\ panicked' = TRUE
                       /\ UNCHANGED <<path2id, id2path, collisions, stored, nfs>>
                  ELSE \E insorder \in Listings(AddedPaths(loaded.ix, fs)) :
                     LET r == update_all(loaded.ix, fs, insorder, debug_assertions)
                     IN /\ upd' = r.update
                        /\ panicked' = r.panic
                        /\ IF r.update.ok
                           THEN /\ SetIndex(r.ix)
                                /\ \E order \in StoreOrders(r.ix.path2id) :
                                      stored' = store(r.ix.path2id, order)
                                /\ nfs' = nfs + 1
                           ELSE UNCHANGED <<path2id, id2path, collisions, stored, nfs>>
    /\ UNCHANGED <<fs, debug_assertions, afvars>>

\* index_new, called within its contract: the path is not indexed and the
\* index is up-to-date for every other path.
IndexNew(q) ==
    /\ ~panicked
    /\ q \notin DOMAIN path2id
    /\ UpToDateExcept(q)
    /\ LET r == index_new(TheIndex, fs, q, debug_assertions)
       IN /\ SetIndex(r.ix)
          /\ upd' = r.update
          /\ panicked' = r.panic
    /\ UNCHANGED <<fs, stored, debug_assertions, afvars, nfs>>

\* update_one, called within its contract: the path is indexed under
\* old_id, its content has changed or is gone, and the index is up-to-date
\* for every other path.
UpdateOne(q) ==
    /\ ~panicked
    /\ q \in DOMAIN path2id
    /\ UpToDateExcept(q)
    /\ ~(scan_entry(fs[q]).ok /\ scan_entry(fs[q]).entry.id = path2id[q].id)
    /\ LET r == update_one(TheIndex, fs, q, path2id[q].id, debug_assertions)
       IN /\ SetIndex(r.ix)
          /\ upd' = r.update
          /\ panicked' = r.panic
    /\ UNCHANGED <<fs, stored, debug_assertions, afvars, nfs>>

\* forget_id for an indexed id whose resource is gone from the tree.
ForgetId(old_id) ==
    /\ ~panicked
    /\ old_id \in DOMAIN id2path
    /\ \A q \in Paths : ~(scan_entry(fs[q]).ok /\ scan_entry(fs[q]).entry.id = old_id)
    /\ LET r == forget_id(TheIndex, old_id)
       IN /\ SetIndex(r.ix)
          /\ upd' = r.update
    /\ UNCHANGED <<fs, stored, panicked, debug_assertions, afvars, nfs>>

\* update_one with any path and any id, whatever the index holds. With
\* trace logging enabled the call evaluates self.path2id[path], which
\* panics for an existing path that is not indexed.
UpdateOneAny(q, old_id, trace) ==
    /\ ~panicked
    /\ IF trace /\ fs[q].kind # "none" /\ q \notin DOMAIN path2id
       THEN /\ panicked' = TRUE
            /\ upd' = Failure("panic")
            /\ UNCHANGED <<path2id, id2path, collisions>>
       ELSE LET r == update_one(TheIndex, fs, q, old_id, debug_assertions)
            IN /\ SetIndex(r.ix)
               /\ upd' = r.update
               /\ panicked' = r.panic
    /\ UNCHANGED <<fs, stored, debug_assertions, afvars, nfs>>

\* forget_id with any id.
ForgetIdAny(old_id) ==
    /\ ~panicked
    /\ LET r == forget_id(TheIndex, old_id)
       IN /\ SetIndex(r.ix)
          /\ upd' = r.update
    /\ UNCHANGED <<fs, stored, panicked, debug_assertions, afvars, nfs>>

\* index_new with any path.
IndexNewAny(q) ==
    /\ ~panicked
    /\ LET r == index_new(TheIndex, fs, q, debug_assertions)
       IN /\ SetIndex(r.ix)
          /\ upd' = r.update
          /\ panicked' = r.panic
    /\ UNCHANGED <<fs, stored, debug_assertions, afvars, nfs>>

\* ------------------------------------------------ resource identifiers
\* A u64 is written as the sequence of its decimal digits, so that every
\* value up to u64::MAX is exact.
U64_MAX == <<1, 8, 4, 4, 6, 7, 4, 4, 0, 7, 3, 7, 0, 9, 5, 5, 1, 6, 1, 5>>

U8_MAX == <<2, 5, 5>>

\* `{}` of a u64.
DecimalU64(ds) == [i \in 1..Len(ds) |-> Digit[ds[i] + 1]]

\* str::parse for an unsigned integer type with the largest value `max`:
\* an optional `+`, then at least one digit, any number of leading zeros,
\* and a value not above `max`. The value is a digit sequence.
ParseUnsigned(s, max) ==
    LET body == IF s # << >> /\ Head(s) = "+" THEN Tail(s) ELSE s
    IN IF body = << >> \/ \E i \in 1..Len(body) : ~IsDigit(body[i])
       THEN [ok |-> FALSE, value |-> <<0>>]
       ELSE LET ds == StripZeros([i \in 1..Len(body) |-> DigitValue(body[i])])
            IN IF DigitsLeq(ds, max) THEN [ok |-> TRUE, value |-> ds]
               ELSE [ok |-> FALSE, value |-> <<0>>]

\* The bytes a hash is made of in the model, the sizes and the
\* identifiers.
ByteSamples == {0, 1, 63, 64, 250, 255}

Hashes == [1..HashLen -> ByteSamples]

DataSizes ==
    {DigitsOf(n) : n \in 0..MaxDataSize}
        \cup {<<2, 1, 4, 7, 4, 8, 3, 6, 4, 8>>, <<4, 2, 9, 4, 9, 6, 7, 2, 9, 6>>, U64_MAX}

ResourceIds == [data_size : DataSizes, hash : Hashes]

\* The alphabet of base64::engine::general_purpose::STANDARD.
BASE64_ALPHABET ==
    <<"A", "B", "C", "D", "E", "F", "G", "H", "I", "J", "K", "L", "M",
      "N", "O", "P", "Q", "R", "S", "T", "U", "V", "W", "X", "Y", "Z",
      "a", "b", "c", "d", "e", "f", "g", "h", "i", "j", "k", "l", "m",
      "n", "o", "p", "q", "r", "s", "t", "u", "v", "w", "x", "y", "z",
      "0", "1", "2", "3", "4", "5", "6", "7", "8", "9", "+", "/">>

IsSextet(ch) == \E i \in 1..64 : BASE64_ALPHABET[i] = ch

Sextet(ch) == (CHOOSE i \in 1..64 : BASE64_ALPHABET[i] = ch) - 1

\* BASE64.encode: three bytes give four characters, the last one or two
\* bytes give three or two characters and `=` padding.
RECURSIVE BASE64_encode(_)
BASE64_encode(b) ==
    IF b = << >> THEN << >>
    ELSE IF Len(b) = 1
    THEN LET n == b[1] * 16
         IN <<BASE64_ALPHABET[(n \div 64) + 1], BASE64_ALPHABET[(n % 64) + 1], "=", "=">>
    ELSE IF Len(b) = 2
    THEN LET n == (b[1] * 256 + b[2]) * 4
         IN <<BASE64_ALPHABET[(n \div 4096) + 1], BASE64_ALPHABET[((n \div 64) % 64) + 1],
              BASE64_ALPHABET[(n % 64) + 1], "=">>
    ELSE LET n == b[1] * 65536 + b[2] * 256 + b[3]
         IN <<BASE64_ALPHABET[(n \div 262144) + 1], BASE64_ALPHABET[((n \div 4096) % 64) + 1],
              BASE64_ALPHABET[((n \div 64) % 64) + 1], BASE64_ALPHABET[(n % 64) + 1]>>
            \o BASE64_encode(SubSeq(b, 4, Len(b)))

NoBytes == [ok |-> FALSE, bytes |-> << >>]

\* BASE64.decode: groups of four characters, padding in the last group
\* only, no set bits left over.
RECURSIVE BASE64_decode(_)
BASE64_decode(s) ==
    IF s = << >> THEN [ok |-> TRUE, bytes |-> << >>]
    ELSE IF Len(s) < 4 THEN NoBytes
    ELSE LET rest == SubSeq(s, 5, Len(s))
         IN IF \A i \in 1..4 : IsSextet(s[i])
            THEN LET n == Sextet(s[1]) * 262144 + Sextet(s[2]) * 4096
                          + Sextet(s[3]) * 64 + Sextet(s[4])
                     r == BASE64_decode(rest)
                 IN IF r.ok
                    THEN [ok |-> TRUE,
                          bytes |-> <<n \div 65536, (n \div 256) % 256, n % 256>> \o r.bytes]
                    ELSE NoBytes
            ELSE IF rest # << >> THEN NoBytes
            ELSE IF IsSextet(s[1]) /\ IsSextet(s[2]) /\ IsSextet(s[3]) /\ s[4] = "="
            THEN LET n == Sextet(s[1]) * 4096 + Sextet(s[2]) * 64 + Sextet(s[3])
                 IN IF n % 4 # 0 THEN NoBytes
                    ELSE [ok |-> TRUE, bytes |-> <<n \div 1024, (n \div 4) % 256>>]
            ELSE IF IsSextet(s[1]) /\ IsSextet(s[2]) /\ s[3] = "=" /\ s[4] = "="
            THEN LET n == Sextet(s[1]) * 64 + Sextet(s[2])
                 IN IF n % 16 # 0 THEN NoBytes
                    ELSE [ok |-> TRUE, bytes |-> <<n \div 16>>]
            ELSE NoBytes

\* str::split_once('-')
split_once(s) ==
    IF \E i \in 1..Len(s) : s[i] = "-"
    THEN LET i == CHOOSE j \in 1..Len(s) : s[j] = "-" /\ \A k \in 1..(j - 1) : s[k] # "-"
         IN [some |-> TRUE, l |-> SubSeq(s, 1, i - 1), r |-> SubSeq(s, i + 1, Len(s))]
    ELSE [some |-> FALSE, l |-> << >>, r |-> << >>]

NoId == [data_size |-> <<0>>, hash |-> << >>]

ParseError == [ok |-> FALSE, kind |-> "Parse", id |-> NoId]

Parsed(id) == [ok |-> TRUE, kind |-> "Ok", id |-> id]

ResourceIdBlake3_fmt_nodash(id) == DecimalU64(id.data_size) \o BASE64_encode(id.hash)

\* impl Display for ResourceIdBlake3
ResourceIdBlake3_fmt(id) == DecimalU64(id.data_size) \o <<"-">> \o BASE64_encode(id.hash)

\* impl FromStr for ResourceIdBlake3; copy_from_slice panics when the
\* decoded bytes are not as many as the hash has.
ResourceIdBlake3_from_str(s) ==
    LET parts == split_once(s)
    IN IF ~parts.some THEN ParseError
       ELSE LET data_size == ParseUnsigned(parts.l, U64_MAX)
                hash_vec == BASE64_decode(parts.r)
            IN IF ~data_size.ok THEN ParseError
               ELSE IF ~hash_vec.ok THEN ParseError
               ELSE IF Len(hash_vec.bytes) # HashLen
               THEN [ok |-> FALSE, kind |-> "panic", id |-> NoId]
               ELSE Parsed([data_size |-> data_size.value, hash |-> hash_vec.bytes])

\* `{:?}` of a byte array: "[b1, b2, ...]".
RECURSIVE DebugList(_)
DebugList(b) ==
    IF b = << >> THEN << >>
    ELSE IF Len(b) = 1 THEN Decimal(b[1])
    ELSE Decimal(b[1]) \o <<",", " ">> \o DebugList(Tail(b))

DebugBytes(b) == <<"[">> \o DebugList(b) \o <<"]">>

\* impl Display for ResourceId (id.rs)
ResourceId_fmt(id) == DecimalU64(id.data_size) \o <<"-">> \o DebugBytes(id.hash)

RECURSIVE trim_start_matches(_, _)
trim_start_matches(s, ch) ==
    IF s # << >> /\ Head(s) = ch THEN trim_start_matches(Tail(s), ch) ELSE s

RECURSIVE trim_end_matches(_, _)
trim_end_matches(s, ch) ==
    IF s # << >> /\ s[Len(s)] = ch
    THEN trim_end_matches(SubSeq(s, 1, Len(s) - 1), ch) ELSE s

\* The characters with the Unicode property White_Space (U+0009 to
\* U+000D, U+0020, U+0085, U+00A0, U+1680, U+2000 to U+200A, U+2028,
\* U+2029, U+202F, U+205F, U+3000). Those from U+2000 on cannot be
\* written in a string of a module: in a text each of them is the
\* element that names its code point.
WhiteSpace ==
    {" ", "\t", "\n", "", "\f", "\r", "", " ", " ",
     "U+2000", "U+2001", "U+2002", "U+2003", "U+2004", "U+2005", "U+2006", "U+2007",
     "U+2008", "U+2009", "U+200A", "U+2028", "U+2029", "U+202F", "U+205F", "U+3000"}

\* str::trim
RECURSIVE trim(_)
trim(s) ==
    IF s # << >> /\ Head(s) \in WhiteSpace THEN trim(Tail(s))
    ELSE IF s # << >> /\ s[Len(s)] \in WhiteSpace THEN trim(SubSeq(s, 1, Len(s) - 1))
    ELSE s

\* str::split(", "): `acc` is the piece being read.
RECURSIVE SplitCommaBlank(_, _)
SplitCommaBlank(s, acc) ==
    IF s = << >> THEN <<acc>>
    ELSE IF Len(s) >= 2 /\ s[1] = "," /\ s[2] = " "
    THEN <<acc>> \o SplitCommaBlank(SubSeq(s, 3, Len(s)), << >>)
    ELSE SplitCommaBlank(Tail(s), Append(acc, Head(s)))

\* impl FromStr for ResourceId (id.rs)
ResourceId_from_str(s) ==
    LET parts == split_once(s)
    IN IF ~parts.some THEN ParseError
       ELSE LET data_size == ParseUnsigned(parts.l, U64_MAX)
                inner == trim_end_matches(trim_start_matches(parts.r, "["), "]")
                bytes == SplitCommaBlank(inner, << >>)
            IN IF ~data_size.ok THEN ParseError
               ELSE IF Len(bytes) # HashLen THEN ParseError
               ELSE IF \E i \in 1..Len(bytes) : ~ParseUnsigned(trim(bytes[i]), U8_MAX).ok
               THEN ParseError
               ELSE Parsed([data_size |-> data_size.value,
                            hash |-> [i \in 1..Len(bytes) |->
                                         DigitsValue(ParseUnsigned(trim(bytes[i]), U8_MAX).value)]])

NoText == [impl |-> "none", chars |-> << >>]

NotParsed == [ok |-> FALSE, kind |-> "none", id |-> NoId]

\* provide_index: one root path, several calling threads.
Callers == 1..NCallers

NoIndex == 0

\* No caller is inside provide_index and nothing is registered.
RegIdle ==
    /\ REGISTRAR = NoIndex
    /\ ppc = [t \in Callers |-> "idle"]
    /\ pindex = [t \in Callers |-> NoIndex]
    /\ handed = {}
    /\ nindex = 0
    /\ npcalls = 0

\* compute_reader. Sizes are counted in buffers of BUFFER_CAPACITY bytes
\* (512 KiB), the most one fill_buf call yields; a u32 counts up to
\* U32_RANGE - 1 = 2^32 / (512 * 1024) - 1 of them.
BUFFER_CAPACITY == 1

U32_RANGE == 8192

Sizes == {1, U32_RANGE - 1, U32_RANGE, U32_RANGE + 1}

\* compute_reader is not running.
ReaderIdle ==
    /\ rdsize = 0 /\ rdlen = 0 /\ rdleft = 0 /\ rdread = 0
    /\ rdres = "idle"

LibIdle == RegIdle /\ ReaderIdle

\* No identifier is being formatted.
IdIdle ==
    /\ rid = NoId
    /\ rtext = NoText
    /\ rparsed = NotParsed

\* id.to_string() for either type of identifier.
ToStringBlake3 ==
    /\ rtext = NoText
    /\ rtext' = [impl |-> "blake3", chars |-> ResourceIdBlake3_fmt(rid)]
    /\ UNCHANGED <<rid, rparsed, afstate, ixstate, libvars>>

ToStringId ==
    /\ rtext = NoText
    /\ rtext' = [impl |-> "id", chars |-> ResourceId_fmt(rid)]
    /\ UNCHANGED <<rid, rparsed, afstate, ixstate, libvars>>

\* text.parse() with the type that formatted the text.
ParseBlake3 ==
    /\ rtext.impl = "blake3"
    /\ rparsed = NotParsed
    /\ rparsed' = ResourceIdBlake3_from_str(rtext.chars)
    /\ UNCHANGED <<rid, rtext, afstate, ixstate, libvars>>

ParseId ==
    /\ rtext.impl = "id"
    /\ rparsed = NotParsed
    /\ rparsed' = ResourceId_from_str(rtext.chars)
    /\ UNCHANGED <<rid, rtext, afstate, ixstate, libvars>>

\* ------------------------------------------------------ specifications
\* The machines that share the directory are interchangeable: the prefixes
\* are numbered in the order of the writers that carry them.
AnyPrefixes ==
    {f \in [Writers -> Prefixes] :
        /\ f[1] = 1
        /\ \A w \in Writers \ {1} : f[w - 1] <= f[w] /\ f[w] <= f[w - 1] + 1}

SamePrefix == {[w \in Writers |-> 1]}

\* Spec: callers of modify and of modify_json, any number of them in
\* flight up to NWriters.
\* The resource index is not in use.
IxIdle == IxInit /\ debug_assertions = FALSE /\ IdIdle /\ LibIdle

Init == AfInit(AnyPrefixes) /\ IxIdle

Next ==
    \E w \in Writers :
        \/ Start(w, MaxCalls)
        \/ StartJson(w, MaxCalls)
        \/ Load(w)
        \/ Stage(w)
        \/ StageJson(w)
        \/ Check(w)
        \/ Link(w)
        \/ LinkFault(w)
        \/ Prune(w)
        \/ ModifyMatch(w)

Spec == Init /\ [][Next]_vars

\* SpecLinked: as Spec, and hard_link may also report an error after it
\* has created the link.
NextLinked ==
    \/ Next
    \/ \E w \in Writers : LinkFaultLinked(w)

SpecLinked == Init /\ [][NextLinked]_vars


\* SpecJson: one caller of modify_json after another on a directory that
\* holds one version file with any of the sample contents.
JsonSamples ==
    {<< >>, <<1>>, <<91, 49, 93>>, <<32, 91, 49, 44, 32, 50, 93, 10>>, <<91, 49, 44>>,
     <<91, 49, 44, 93>>, NullText, <<110, 117>>, <<91, 45, 48, 93>>, <<91, 93>>,
     <<91, 50, 49, 52, 55, 52, 56, 51, 54, 52, 56, 93>>, <<91, 49, 46>>,
     <<91, 45>>, <<91, 49, 101>>, <<91, 49, 46, 53, 69, 43>>}

InitJson ==
    /\ \E text \in JsonSamples : dir = Put(<< >>, path(1, 1), text)
    /\ prefixOf = [w \in Writers |-> 1]
    /\ directory = Directory
    /\ helper = [w \in Writers |-> "none"]
    /\ pruning = [w \in Writers |-> NoPrune]
    /\ pc = [w \in Writers |-> "idle"]
    /\ cur = [w \in Writers |-> NoFile]
    /\ buf = [w \in Writers |-> << >>]
    /\ lv = [w \in Writers |-> 0]
    /\ casres = [w \in Writers |-> NoRes]
    /\ marker = [w \in Writers |-> 0]
    /\ ncalls = 0
    /\ late = 0
    /\ outcome = << >>
    /\ faults = 0
    /\ IxIdle

NextJson ==
    \/ StartJson(1, MaxCalls)
    \/ Load(1)
    \/ StageJson(1)
    \/ Check(1)
    \/ Link(1)
    \/ Prune(1)
    \/ ModifyMatch(1)

SpecJson == InitJson /\ [][NextJson]_vars

\* SpecContend: MAX_VERSION_FILES + 2 callers of modify on one AtomicFile
\* (one prefix), each appending its marker, without I/O failures.
InitContend == AfInit(SamePrefix) /\ IxIdle

ContendWriters == {1, 2}

NextContend ==
    \E w \in ContendWriters :
        \/ StartLowest(w, MAX_VERSION_FILES + 2)
        \/ Load(w)
        \/ Stage(w)
        \/ Check(w)
        \/ Link(w)
        \/ Prune(w)
        \/ ModifyMatch(w)

SpecContend == InitContend /\ [][NextContend]_vars


\* SpecRace: every writer loads once and calls compare_and_swap once
\* (tests::failed_to_write_simultaneously, with any prefixes).
NextRace ==
    \E w \in Writers :
        \/ Start(w, NWriters)
        \/ Load(w)
        \/ StageFixed(w)
        \/ Check(w)
        \/ Link(w)
        \/ Prune(w)
        \/ CasReturn(w)

SpecRace == Init /\ [][NextRace]_vars

\* SpecSeq: one writer commits SeqCommits versions one after another
\* (tests::delete_old_files).
NextSeq ==
    \/ Start(1, SeqCommits)
    \/ Load(1)
    \/ StageFixed(1)
    \/ Check(1)
    \/ Link(1)
    \/ Prune(1)
    \/ CasUnwrap(1)

SpecSeq == InitContend /\ [][NextSeq]_vars


\* SpecLoad: writer 1 calls load() on a directory that holds any version
\* files of this and of other machines (synced in), listed in any order;
\* one of the other machines is EmbeddingMachine, and the directory may lie
\* below one whose name holds the writer's prefix.
LoadPrefixes == 1..EmbeddingMachine

LoadDirectories ==
    {Directory, DirectoryBelowPrefix, DirectoryWithSeparator, DirectoryParent}

LoadNames == {path(p, v) : p \in LoadPrefixes, v \in 1..MaxLoadVersion}

InitLoad ==
    /\ \E names \in SUBSET LoadNames :
          /\ Cardinality(names) <= MaxDirFiles
          /\ dir = [n \in names |-> <<n.stem>>]
    /\ prefixOf = [w \in Writers |-> 1]
    /\ directory \in {d \in LoadDirectories : AtomicFile_new(d, 1).ok}
    /\ helper = [w \in Writers |-> IF w = 1 THEN "modify" ELSE "none"]
    /\ pruning = [w \in Writers |-> NoPrune]
    /\ pc = [w \in Writers |-> IF w = 1 THEN "load" ELSE "idle"]
    /\ cur = [w \in Writers |-> NoFile]
    /\ buf = [w \in Writers |-> << >>]
    /\ lv = [w \in Writers |-> 0]
    /\ casres = [w \in Writers |-> NoRes]
    /\ marker = [w \in Writers |-> IF w = 1 THEN 1 ELSE 0]
    /\ ncalls = 1
    /\ late = 0
    /\ outcome = << >>
    /\ IxIdle
    /\ faults = 0

NextLoad == LoadAnyOrder(1)

SpecLoad == InitLoad /\ [][NextLoad]_vars

\* SpecLive: every writer thread performs one modify call on one
\* AtomicFile, without I/O failures; the operating system schedules every
\* thread again and again (weak fairness on each writer's steps).
WriterStep(w) ==
    \/ Start(w, NWriters)
    \/ Load(w)
    \/ Stage(w)
    \/ Check(w)
    \/ Link(w)
    \/ Prune(w)
    \/ ModifyMatch(w)

NextLive == \E w \in Writers : WriterStep(w)

SpecLive ==
    /\ InitContend
    /\ [][NextLive]_vars
    /\ \A w \in Writers : WF_vars(WriterStep(w))

\* SpecPrune: writer 1 loads and commits once on a directory that holds
\* version files of this and of other machines, with versions at both ends
\* of the retention window, and the scratch file of another writer.
PruneVersions == {1, 2, MAX_VERSION_FILES, MAX_VERSION_FILES + 1, MAX_VERSION_FILES + 2}

PruneNames == {path(p, v) : p \in LoadPrefixes, v \in PruneVersions}

InitPrune ==
    /\ \E names \in SUBSET PruneNames :
          /\ Cardinality(names) <= MaxDirFiles
          /\ dir = [n \in names \cup {ScratchName(2)} |-> <<n.stem>>]
    /\ prefixOf = [w \in Writers |-> 1]
    /\ directory = Directory
    /\ helper = [w \in Writers |-> IF w = 1 THEN "modify" ELSE "none"]
    /\ pruning = [w \in Writers |-> NoPrune]
    /\ pc = [w \in Writers |-> IF w = 1 THEN "load" ELSE "idle"]
    /\ cur = [w \in Writers |-> NoFile]
    /\ buf = [w \in Writers |-> << >>]
    /\ lv = [w \in Writers |-> 0]
    /\ casres = [w \in Writers |-> NoRes]
    /\ marker = [w \in Writers |-> IF w = 1 THEN 1 ELSE 0]
    /\ ncalls = 1
    /\ late = 0
    /\ outcome = << >>
    /\ IxIdle
    /\ faults = 0

NextPrune ==
    \/ Load(1)
    \/ StageFixed(1)
    \/ Check(1)
    \/ Link(1)
    \/ Prune(1)
    \/ CasReturn(1)

SpecPrune == InitPrune /\ [][NextPrune]_vars

\* SpecIndex: one resource index over a root whose files are written,
\* removed and replaced between the calls; every call is made within its
\* documented contract. The build checks debug assertions or not.
InitIndex == AfInit(SamePrefix) /\ IxInit /\ debug_assertions \in BOOLEAN /\ IdIdle /\ LibIdle

NextIndex ==
    \/ \E q \in Paths, c \in Contents, t \in 0..MaxTime : WriteFile(q, c, t)
    \/ \E q \in Paths : RemovePath(q)
    \/ \E q \in Paths : MakeDir(q)
    \/ \E q \in Paths, q2 \in Paths : Rename(q, q2)
    \/ Build
    \/ Store
    \/ LoadIndex
    \/ UpdateAll
    \/ Provide
    \/ \E q \in Paths : IndexNew(q)
    \/ \E q \in Paths : UpdateOne(q)
    \/ \E c \in 1..NContents : ForgetId(compute(c))

SpecIndex == InitIndex /\ [][NextIndex]_vars

\* SpecIndexAny: the in-memory index without persistence; the single-path
\* calls are made with any argument, inside or outside their contracts.
NextIndexAny ==
    \/ \E q \in Paths, c \in Contents, t \in 0..MaxTime : WriteFile(q, c, t)
    \/ \E q \in Paths : RemovePath(q)
    \/ \E q \in Paths : MakeDir(q)
    \/ \E q \in Paths, q2 \in Paths : Rename(q, q2)
    \/ Build
    \/ UpdateAll
    \/ \E q \in Paths, c \in 1..NContents, trace \in BOOLEAN :
          UpdateOneAny(q, compute(c), trace)
    \/ \E c \in 1..NContents : ForgetIdAny(compute(c))
    \/ \E q \in Paths : IndexNewAny(q)

\* File-system changes explored under SpecIndexAny.
AnyFsOps == 3

InitIndexAny ==
    /\ AfInit(SamePrefix)
    /\ fs = [q \in Paths |-> NoEntry]
    /\ path2id = << >>
    /\ id2path = << >>
    /\ collisions = << >>
    /\ stored = NoStore
    /\ upd = NoUpdate
    /\ panicked = FALSE
    /\ nfs = MaxFsOps - AnyFsOps
    /\ debug_assertions \in BOOLEAN
    /\ IdIdle
    /\ LibIdle

SpecIndexAny == InitIndexAny /\ [][NextIndexAny]_vars

\* SpecId: any identifier is formatted with to_string and the text is
\* parsed back, with either type of identifier.
InitId ==
    /\ AfInit(SamePrefix)
    /\ IxInit
    /\ debug_assertions = FALSE
    /\ rid \in ResourceIds
    /\ rtext = NoText
    /\ rparsed = NotParsed
    /\ LibIdle

NextId ==
    \/ ToStringBlake3
    \/ ToStringId
    \/ ParseBlake3
    \/ ParseId

SpecId == InitId /\ [][NextId]_vars

\* ---------------------------------------------------------- provide_index
\* provide_index is entered: the root path is canonicalized.
ProvideIndexStart(t) ==
    /\ ppc[t] = "idle"
    /\ npcalls < MaxProvideCalls
    /\ npcalls' = npcalls + 1
    /\ ppc' = [ppc EXCEPT ![t] = "lookup"]
    /\ UNCHANGED <<REGISTRAR, pindex, handed, nindex, rdvars, idvars, afstate, ixstate>>

\* The block under REGISTRAR.read(): a registered index is returned at
\* once, otherwise the read lock is released and the call goes on.
ProvideIndexLookup(t) ==
    /\ ppc[t] = "lookup"
    /\ IF REGISTRAR # NoIndex
       THEN /\ handed' = handed \cup {REGISTRAR}
            /\ ppc' = [ppc EXCEPT ![t] = "idle"]
       ELSE /\ ppc' = [ppc EXCEPT ![t] = "provide"]
            /\ UNCHANGED handed
    /\ UNCHANGED <<REGISTRAR, pindex, nindex, npcalls, rdvars, idvars, afstate, ixstate>>

\* ResourceIndex::provide(&root_path), outside any lock: it constructs a
\* new index or fails, and a failure is returned to the caller.
ProvideIndexProvide(t, ok) ==
    /\ ppc[t] = "provide"
    /\ IF ok
       THEN /\ nindex' = nindex + 1
            /\ pindex' = [pindex EXCEPT ![t] = nindex + 1]
            /\ ppc' = [ppc EXCEPT ![t] = "register"]
       ELSE /\ ppc' = [ppc EXCEPT ![t] = "idle"]
            /\ UNCHANGED <<nindex, pindex>>
    /\ UNCHANGED <<REGISTRAR, handed, npcalls, rdvars, idvars, afstate, ixstate>>

\* The block under REGISTRAR.write(): the new index is inserted for the
\* root, replacing whatever is registered, and returned.
ProvideIndexRegister(t) ==
    /\ ppc[t] = "register"
    /\ REGISTRAR' = pindex[t]
    /\ handed' = handed \cup {pindex[t]}
    /\ pindex' = [pindex EXCEPT ![t] = NoIndex]
    /\ ppc' = [ppc EXCEPT ![t] = "idle"]
    /\ UNCHANGED <<nindex, npcalls, rdvars, idvars, afstate, ixstate>>

\* SpecRegistrar: threads call provide_index for one root.
InitRegistrar == AfInit(SamePrefix) /\ IxIdle

NextRegistrar ==
    \E t \in Callers :
        \/ ProvideIndexStart(t)
        \/ ProvideIndexLookup(t)
        \/ \E ok \in BOOLEAN : ProvideIndexProvide(t, ok)
        \/ ProvideIndexRegister(t)

SpecRegistrar == InitRegistrar /\ [][NextRegistrar]_vars

\* --------------------------------------------------------- compute_reader
\* One round of the loop of compute_reader with a non-empty fill_buf: the
\* buffer is hashed and consumed and its length added to bytes_read. The
\* addition overflows a u32 with a panic where overflow is checked and
\* wraps where it is not.
ComputeReaderRead ==
    /\ rdres = "loop"
    /\ rdleft > 0
    /\ LET bytes_read_iteration == IF rdleft < BUFFER_CAPACITY THEN rdleft
                                   ELSE BUFFER_CAPACITY
           sum == rdread + bytes_read_iteration
       IN /\ rdleft' = rdleft - bytes_read_iteration
          /\ IF sum >= U32_RANGE /\ debug_assertions
             THEN rdres' = "overflow" /\ UNCHANGED rdread
             ELSE rdread' = sum % U32_RANGE /\ UNCHANGED rdres
    /\ UNCHANGED <<rdsize, rdlen, regvars, idvars, afstate, ixstate>>

\* fill_buf yields nothing: the loop ends, and
\* assert_eq!(Into::<u64>::into(bytes_read), data_size) decides between the
\* identifier {data_size, hash} and a panic.
ComputeReaderFinish ==
    /\ rdres = "loop"
    /\ rdleft = 0
    /\ rdres' = IF rdread = rdsize THEN "Ok" ELSE "mismatch"
    /\ UNCHANGED <<rdsize, rdlen, rdleft, rdread, regvars, idvars, afstate, ixstate>>

\* SpecReader: compute_reader(data_size, reader) over a source of any of
\* the lengths, in a build with or without overflow checks.
InitReader ==
    /\ AfInit(SamePrefix) /\ IxInit /\ debug_assertions \in BOOLEAN
    /\ IdIdle /\ RegIdle
    /\ rdsize \in Sizes
    /\ rdlen \in Sizes
    /\ rdleft = rdlen
    /\ rdread = 0
    /\ rdres = "loop"

NextReader == ComputeReaderRead \/ ComputeReaderFinish

SpecReader == InitReader /\ [][NextReader]_vars

\* ------------------------------------------------------------ properties
VersionFiles(d) == {n \in DOMAIN d : n.ext # NoExt}

HighestVersion(d) ==
    CHOOSE v \in {n.ext : n \in DOMAIN d} \cup {0} :
        v >= 0 /\ \A n \in DOMAIN d : n.ext <= v

TopFiles(d) ==
    LET highest == HighestVersion(d)
    IN {n \in VersionFiles(d) : n.ext = highest}

Count(seq, x) == Cardinality({i \in 1..Len(seq) : seq[i] = x})

AllDone == \A w \in Writers : pc[w] = "done"

SameHandle == \A w \in Writers : prefixOf[w] = prefixOf[1] /\ cur[w] = cur[1]

Winners == {w \in Writers : pc[w] = "done" /\ outcome[marker[w]] = "Ok"}

\* C1: when writers that share one prefix have all loaded the same handle
\* and each has called compare_and_swap once, exactly one call returned Ok
\* and every other one returned AlreadyExists.
C1_ExactlyOneWinner ==
    (AllDone /\ SameHandle) =>
        /\ Cardinality(Winners) = 1
        /\ \A w \in Writers \ Winners : outcome[marker[w]] = "AlreadyExists"

C1_Witness == AllDone /\ SameHandle /\ NWriters >= 2

\* C2 (the claim as stated): every modify call returns Ok, and once all
\* MAX_VERSION_FILES + 2 callers have returned, the latest version holds
\* each caller's marker exactly once.
C2_AllSucceedAllMarkers ==
    /\ \A m \in DOMAIN outcome : outcome[m] = "Ok"
    /\ (ncalls = MAX_VERSION_FILES + 2 /\ \A w \in Writers : pc[w] = "idle") =>
          \A entries \in ReadDir(dir) :
             LET r == load(entries, directory, 1)
             IN /\ r.ok
                /\ r.file.path \in DOMAIN dir
                /\ \A m \in 1..ncalls : Count(dir[r.file.path], m) = 1

\* C3: a compare_and_swap that reaches its staleness check while the
\* highest version in the directory (under any prefix) exceeds
\* current.version returns AlreadyExists, creating and removing no
\* version file.
C3_StaleCasFails ==
    [][\A w \in Writers :
          (pc[w] = "check" /\ pc'[w] # "check"
              /\ HighestVersion(dir) > cur[w].version) =>
             /\ pc'[w] = "ret"
             /\ casres'[w].kind = "AlreadyExists"
             /\ VersionFiles(dir') = VersionFiles(dir)
             /\ \A n \in VersionFiles(dir) : dir'[n] = dir[n]]_vars

C3_Witness ==
    \E w \in Writers :
        /\ pc[w] = "ret"
        /\ casres[w].kind = "AlreadyExists"
        /\ path(prefixOf[w], cur[w].version + 1) \notin DOMAIN dir
        /\ HighestVersion(dir) > cur[w].version

\* C4: between the commits of a single writer, after V commits the
\* directory holds exactly min(V, MAX_VERSION_FILES) version files, the
\* ones with the highest version numbers.
C4_PruningBound ==
    pc[1] = "idle" =>
        /\ Cardinality(VersionFiles(dir)) = Min(ncalls, MAX_VERSION_FILES)
        /\ VersionFiles(dir) =
              {path(1, v) : v \in (ncalls - Min(ncalls, MAX_VERSION_FILES) + 1)..ncalls}

C4_Witness ==
    /\ pc[1] = "idle"
    /\ ncalls > MAX_VERSION_FILES
    /\ Cardinality(VersionFiles(dir)) = MAX_VERSION_FILES

\* C5 (the claim as stated): a handle returned by load() names a file of
\* the directory with the highest version present, whatever prefix wrote
\* it, and when the file of the own prefix is among the files of the
\* highest version, load() returns that file.
C5_LoadReturnsHighest ==
    (pc[1] = "open" /\ VersionFiles(dir) # {}) =>
       /\ cur[1].path \in TopFiles(dir)
       /\ cur[1].version = HighestVersion(dir)
       /\ path(prefixOf[1], HighestVersion(dir)) \in TopFiles(dir) =>
             cur[1].path = path(prefixOf[1], HighestVersion(dir))

\* C6: no modify or modify_json call hands AlreadyExists to its caller, and every other
\* compare_and_swap error reaches the caller: each injected hard_link
\* failure is either pending in a writer's match or the result of a call.
C6_AlreadyExistsNeverReturned ==
    /\ \A m \in DOMAIN outcome : outcome[m] # "AlreadyExists"
    /\ faults = Cardinality({m \in DOMAIN outcome : outcome[m] = "Other"})
                 + Cardinality({w \in Writers : casres[w].kind = "Other"})

C6_Witness ==
    /\ \E m \in DOMAIN outcome : outcome[m] = "Other"
    /\ \E w \in Writers : pc[w] = "load" /\ casres[w].kind = "AlreadyExists"

\* C7: at most one compare_and_swap succeeds for a version. Every call of
\* modify appends its own marker to the content it loaded, so the k-th
\* byte of a version file names the call whose commit created version k:
\* all the version files present agree on the call that committed each
\* version.
C7_AtMostOnePerVersion ==
    \A f, g \in VersionFiles(dir) :
        \A k \in 1..f.ext :
            k <= g.ext => dir[f][k] = dir[g][k]

\* C8: load() on a directory without version files returns version 0,
\* whose open() yields no file; the operator of modify then receives empty
\* bytes, the operator of modify_json receives None, and the result is
\* committed as version 1; with a version present the operator receives
\* the content of the version loaded in that iteration (decoded, for
\* modify_json).
C8_OperatorInput ==
    [][\A w \in Writers :
          /\ (pc[w] = "load" /\ pc'[w] = "open" /\ VersionFiles(dir) = {}) =>
                (cur'[w].version = 0 /\ ~open(dir, cur'[w]).some)
          /\ (pc[w] = "open" /\ pc'[w] = "check" /\ helper[w] = "modify") =>
                /\ buf'[w] = IF cur[w].version = 0 THEN << >> ELSE dir[cur[w].path]
                /\ dir'[ScratchName(w)] = operator(buf'[w], marker[w])
          /\ (pc[w] = "open" /\ pc'[w] = "check" /\ helper[w] = "modify_json") =>
                LET val == IF cur[w].version = 0 THEN NoVal
                           ELSE Some(from_reader(dir[cur[w].path]).value)
                IN dir'[ScratchName(w)] = to_writer(operator_json(val, marker[w]))
          /\ (pc[w] = "link" /\ pc'[w] = "prune" /\ cur[w].version = 0) =>
                /\ path(prefixOf[w], 1) \in DOMAIN dir'
                /\ dir'[path(prefixOf[w], 1)]
                      = IF helper[w] = "modify_json"
                        THEN to_writer(operator_json(NoVal, marker[w]))
                        ELSE operator(<< >>, marker[w])]_vars

C8_Witness ==
    /\ \E w \in Writers :
          /\ pc[w] = "prune"
          /\ helper[w] = "modify_json"
          /\ cur[w].version = 1
          /\ from_reader(dir[cur[w].path]).kind = "Ok"
          /\ dir[path(prefixOf[w], 2)]
                = to_writer(operator_json(Some(from_reader(dir[cur[w].path]).value),
                                          marker[w]))
    /\ \E n \in VersionFiles(dir), m \in 1..MaxCalls :
          n.ext = 1 /\ dir[n] = operator(<< >>, m)

\* Number of path2id entries that carry the id.
PathsWith(id) == {q \in DOMAIN path2id : path2id[q].id = id}

Ids == {compute(c) : c \in 1..NContents}

\* C9: after any sequence of in-contract index calls, for every id the
\* number of path2id entries carrying it equals collisions[id] when
\* collisions has an entry for it, and is exactly 1 when the id is a key of
\* id2path without a collisions entry; no collisions entry is below 2.
C9_CollisionCounts ==
    ~panicked =>
        \A id \in Ids :
            /\ id \in DOMAIN collisions =>
                  /\ Cardinality(PathsWith(id)) = collisions[id]
                  /\ collisions[id] >= 2
            /\ (id \in DOMAIN id2path /\ id \notin DOMAIN collisions) =>
                  Cardinality(PathsWith(id)) = 1

\* C10: after any sequence of in-contract index calls, every id that is a
\* key of id2path has at least one path2id entry with that id.
C10_Id2PathBacked ==
    ~panicked => \A id \in DOMAIN id2path : PathsWith(id) # {}


\* The indexable files of the tree whose content has the id.
FilesWith(tree, id) ==
    {q \in scan_entries(tree, discover_files(tree)) : scan_entry(tree[q]).entry.id = id}

\* C11: build over a tree where k >= 2 indexable paths carry the same
\* content records collisions[id] = k, indexes all k paths in path2id (so
\* count_files counts every indexable file) and keeps one id2path entry for
\* the id, pointing at one of them; an id carried by a single path has no
\* entry in collisions.
C11_BuildCountsDuplicates ==
    [][Build =>
         /\ DOMAIN path2id' = scan_entries(fs, discover_files(fs))
         /\ \A id \in Ids :
               LET k == Cardinality(FilesWith(fs, id))
               IN /\ k >= 2 =>
                        /\ id \in DOMAIN collisions' /\ collisions'[id] = k
                        /\ \A q \in FilesWith(fs, id) :
                               q \in DOMAIN path2id' /\ path2id'[q].id = id
                        /\ id \in DOMAIN id2path' /\ id2path'[id] \in FilesWith(fs, id)
                  /\ k = 1 => id \notin DOMAIN collisions'
                  /\ k = 0 => id \notin DOMAIN id2path']_vars

C11_Witness ==
    /\ \E id \in Ids : Cardinality(FilesWith(fs, id)) >= 2
    /\ \E order \in Listings(scan_entries(fs, discover_files(fs))) :
          TheIndex = build(fs, order, debug_assertions).ix
    /\ \E id \in DOMAIN collisions : collisions[id] = 2
    /\ Cardinality(DOMAIN path2id) = 2
    /\ Cardinality(DOMAIN id2path) = 1

\* C12: when exactly two indexed paths share an id (collisions[id] = 2 and
\* id2path[id] is one of them) and update_all or update_one removes one of
\* the two from path2id, then afterwards collisions has no entry for the id
\* and id2path maps the id to the surviving path.
C12_SurvivorTakesOver ==
    [][(UpdateAll \/ \E q \in Paths : UpdateOne(q)) =>
         \A id \in Ids :
            LET after == {q \in DOMAIN path2id' : path2id'[q].id = id}
            IN (/\ Cardinality(PathsWith(id)) = 2
                /\ id \in DOMAIN collisions /\ collisions[id] = 2
                /\ id \in DOMAIN id2path /\ id2path[id] \in PathsWith(id)
                /\ Cardinality(after) = 1
                /\ after \subseteq PathsWith(id))
               => /\ id \notin DOMAIN collisions'
                  /\ id \in DOMAIN id2path'
                  /\ id2path'[id] \in after]_vars

\* C13: when update_all returns Ok, a second update_all with no change to
\* the file system in between returns an IndexUpdate with empty deleted and
\* added and leaves path2id, id2path and collisions as the first call left
\* them, whatever the tree holds (duplicates, empty files, directories).
C13_UpdateAllIdempotent ==
    [][(UpdateAll /\ upd'.ok) =>
         \A insorder \in Listings(AddedPaths(TheIndex', fs')) :
            LET second == update_all(TheIndex', fs', insorder, debug_assertions)
            IN /\ second.update = NoUpdate
               /\ second.ix = TheIndex']_vars

C13_Witness ==
    /\ upd.ok /\ upd.deleted # {} /\ upd.added # << >>
    /\ \E id \in Ids : Cardinality(FilesWith(fs, id)) >= 2
    /\ \E id \in DOMAIN collisions : collisions[id] = 2
    /\ \A insorder \in Listings(AddedPaths(TheIndex, fs)) :
          update_all(TheIndex, fs, insorder, debug_assertions)
              = [ix |-> TheIndex, update |-> NoUpdate, panic |-> FALSE]

\* The file indexed at q has been renamed to q2: q is gone from the tree,
\* q2 holds the file the index recorded for q, no other indexed path
\* carries its id, and every other path is up-to-date in the index.
RenamedSince(q, q2) ==
    /\ q \in DOMAIN path2id /\ q2 \notin DOMAIN path2id
    /\ fs[q].kind = "none"
    /\ scan_entry(fs[q2]).ok /\ scan_entry(fs[q2]).entry = path2id[q]
    /\ PathsWith(path2id[q].id) = {q}
    /\ path2id[q].id \in DOMAIN id2path /\ id2path[path2id[q].id] = q
    /\ \A r \in Paths \ {q, q2} :
          /\ (r \in DOMAIN path2id) <=> scan_entry(fs[r]).ok
          /\ r \in DOMAIN path2id => path2id[r].id = scan_entry(fs[r]).entry.id

\* C14: update_all after the rename of an indexed file whose id no other
\* indexed path carries reports deleted = {id} and added = {new path -> id};
\* count_files is unchanged, the old path is gone from path2id and id2path
\* maps the id to the new path.
C14_RenameReported ==
    [][UpdateAll =>
         \A q \in Paths, q2 \in Paths :
            RenamedSince(q, q2) =>
               LET id == path2id[q].id
               IN /\ upd'.ok
                  /\ upd'.deleted = {id}
                  /\ DOMAIN upd'.added = {q2} /\ upd'.added[q2] = id
                  /\ Cardinality(DOMAIN path2id') = Cardinality(DOMAIN path2id)
                  /\ q \notin DOMAIN path2id'
                  /\ q2 \in DOMAIN path2id' /\ path2id'[q2].id = id
                  /\ id \in DOMAIN id2path' /\ id2path'[id] = q2]_vars

\* The index is the one built over the tree without q2, whose files have
\* pairwise distinct content, and q2 now holds a file with the content of
\* an indexed file.
DuplicateCreated(q2) ==
    /\ \E order \in Listings(scan_entries(fs, discover_files(fs)) \ {q2}) :
          TheIndex = build([fs EXCEPT ![q2] = NoEntry], order, debug_assertions).ix
    /\ collisions = << >>
    /\ scan_entry(fs[q2]).ok
    /\ scan_entry(fs[q2]).entry.id \in DOMAIN id2path

\* C15: from an index built over files with pairwise distinct content,
\* update_all after the creation of a file byte-identical to an indexed one
\* indexes the new path (count_files grows by one) and records
\* collisions[id] = 2.
C15_DuplicateIndexed ==
    [][UpdateAll =>
         \A q2 \in Paths :
            DuplicateCreated(q2) =>
               LET id == scan_entry(fs[q2]).entry.id
               IN /\ Cardinality(DOMAIN path2id') = Cardinality(DOMAIN path2id) + 1
                  /\ q2 \in DOMAIN path2id'
                  /\ id \in DOMAIN collisions' /\ collisions'[id] = 2]_vars

\* C16: update_one on an indexed path whose content now has another id
\* either returns deleted = {old_id} and added = {path -> new_id}, with
\* path2id[path] carrying new_id afterwards, or fails and leaves path2id,
\* id2path and collisions as they were.
C16_UpdateOneReplaces ==
    [][\A q \in Paths :
          (UpdateOne(q) /\ scan_entry(fs[q]).ok) =>
             LET old_id == path2id[q].id
                 new_id == scan_entry(fs[q]).entry.id
             IN IF upd'.ok
                THEN /\ upd'.deleted = {old_id}
                     /\ DOMAIN upd'.added = {q} /\ upd'.added[q] = new_id
                     /\ q \in DOMAIN path2id' /\ path2id'[q].id = new_id
                ELSE TheIndex' = TheIndex]_vars

\* The path is indexed and the id of its present content is the recorded one.
Unmodified(q) ==
    /\ q \in DOMAIN path2id
    /\ scan_entry(fs[q]).ok
    /\ scan_entry(fs[q]).entry.id = path2id[q].id

\* C17 (the claim as stated): update_one on an indexed path whose
\* recomputed id equals the recorded one returns successfully with an empty
\* IndexUpdate and leaves the index unchanged.
C17_SameIdIsOk ==
    [][\A q \in Paths, id \in Ids, trace \in BOOLEAN :
          (UpdateOneAny(q, id, trace) /\ Unmodified(q)) =>
             (upd' = NoUpdate /\ TheIndex' = TheIndex)]_vars

\* C17 (amended): update_one on an indexed path whose recomputed id equals
\* the recorded one fails with the Collision error, whatever old_id is
\* passed, and leaves path2id, id2path and collisions unchanged.
C17_SameIdIsCollisionError ==
    [][\A q \in Paths, id \in Ids, trace \in BOOLEAN :
          (UpdateOneAny(q, id, trace) /\ Unmodified(q)) =>
             (upd' = Failure("Collision") /\ ~panicked' /\ TheIndex' = TheIndex)]_vars

C17_Witness ==
    /\ upd = Failure("Collision")
    /\ \E q \in Paths : Unmodified(q)

\* C18: forget_id with an id that is not indexed (no key of id2path, no
\* entry of path2id) fails, leaves the index unchanged and reports nothing
\* deleted.
C18_ForgetUnknownIdFails ==
    [][\A id \in Ids :
          (ForgetIdAny(id) /\ id \notin DOMAIN id2path /\ PathsWith(id) = {}) =>
             (~upd'.ok /\ upd'.deleted = {} /\ TheIndex' = TheIndex)]_vars

\* C19: index_new on a path that does not exist, is a directory or is an
\* empty file returns a Path error and leaves path2id, id2path and
\* collisions unchanged.
C19_IndexNewRejects ==
    [][\A q \in Paths :
          (IndexNewAny(q) /\ (fs[q].kind \in {"none", "dir"} \/ SizeOf(fs[q].content) = 0)) =>
             (upd' = Failure("Path") /\ TheIndex' = TheIndex)]_vars

C19_Witness ==
    /\ upd = Failure("Path")
    /\ DOMAIN path2id # {}
    /\ \E q \in Paths \ DOMAIN path2id : fs[q].kind = "file" /\ SizeOf(fs[q].content) = 0

\* C20: provide never returns an error: without a loadable index file it
\* returns the index built from scratch, and with one it returns the loaded
\* index even when update_all fails.
C20_ProvideNeverFails ==
    [][Provide =>
         /\ upd'.ok
         /\ ~stored.exists =>
               \E order \in Listings(scan_entries(fs, discover_files(fs))) :
                  TheIndex' = build(fs, order, debug_assertions).ix
         /\ (stored.exists /\ SystemTimeError(Loaded(stored, fs, debug_assertions).ix, fs)) =>
               TheIndex' = Loaded(stored, fs, debug_assertions).ix]_vars

\* C21: for every index produced by build, store followed by load over the
\* unchanged tree yields an index equal to the built one in path2id, in
\* id2path (the same representative path per id) and in collisions.
C21_StoreLoadRoundTrip ==
    [][Build =>
         \A order \in StoreOrders(path2id') :
            Loaded(store(path2id', order), fs', debug_assertions).ix = TheIndex']_vars

\* C22: for every resource identifier, parsing the text produced by
\* formatting it yields an identifier equal to it.
C22_IdRoundTrip ==
    rparsed # NotParsed => (rparsed.ok /\ rparsed.id = rid)

C22_Witness ==
    /\ rparsed.ok /\ rparsed.id = rid
    /\ rtext.impl = "blake3"
    /\ rid.data_size = U64_MAX
    /\ \E i \in 1..HashLen : rid.hash[i] = 255
    /\ \E i \in 1..Len(rtext.chars) : rtext.chars[i] = "/"

\* C23: the version file a successful compare_and_swap creates has a
\* version strictly greater than every version file present in the
\* directory at the moment of the hard link.
C23_CommitAboveAllPresent ==
    [][\A w \in Writers :
          (pc[w] = "link" /\ pc'[w] = "prune") =>
             cur[w].version + 1 > HighestVersion(dir)]_vars

\* C24: under every interleaving of the writers' loads, commits and
\* pruning, the highest version present in the directory never decreases,
\* every load returns that highest version (so successive loads never
\* return a lower one), and pruning leaves every file of the highest
\* version in place.
C24_LoadMonotone ==
    [][/\ HighestVersion(dir') >= HighestVersion(dir)
       /\ \A w \in Writers :
             /\ (pc[w] = "load" /\ pc'[w] = "open") =>
                   cur'[w].version = HighestVersion(dir)
             /\ (pc[w] \in {"prune", "remove"} /\ <<pc[w], pruning[w]>>' # <<pc[w], pruning[w]>>) =>
                   TopFiles(dir) \subseteq DOMAIN dir']_vars

C24_Witness ==
    /\ \E w \in Writers : pc[w] = "open" /\ cur[w].version > MAX_VERSION_FILES
    /\ \A n \in VersionFiles(dir) : n.ext > 1

\* C25: a successful compare_and_swap that commits version n removes
\* exactly the version files, of any prefix, whose version is at most
\* n - MAX_VERSION_FILES, keeps every other version file and every scratch
\* file of another writer, and returns the number of files it removed:
\* from the link to the return no step of the call removes anything but
\* such a file or the own scratch file, the count starts at 0 and grows by
\* the number of files each step removes, and the call returns the count
\* when no such file is left.
C25_PruneExact ==
    [][\A w \in Writers :
          LET n == cur[w].version + 1
              old == {f \in VersionFiles(dir) : f.ext <= n - MAX_VERSION_FILES}
              old_after == {f \in VersionFiles(dir') : f.ext <= n - MAX_VERSION_FILES}
              before == IF pc[w] = "remove" THEN pruning[w].deleted ELSE 0
              after == IF pc'[w] = "remove" THEN pruning'[w].deleted ELSE casres'[w].n
          IN (pc[w] \in {"prune", "remove"}
                /\ <<pc[w], pruning[w]>>' # <<pc[w], pruning[w]>>) =>
                /\ (DOMAIN dir \ DOMAIN dir') \subseteq (old \cup {ScratchName(w)})
                /\ after - before = Cardinality(old) - Cardinality(old_after)
                /\ pc[w] = "prune" => Cardinality(old_after) = Cardinality(old)
                /\ pc'[w] = "ret" =>
                      /\ old_after = {}
                      /\ casres'[w].kind = "Ok"
                      /\ DOMAIN dir' = (DOMAIN dir \ old) \ {ScratchName(w)}]_vars

C25_Witness ==
    /\ pc[1] = "ret" /\ casres[1].kind = "Ok" /\ casres[1].n = 2
    /\ cur[1].version = MAX_VERSION_FILES + 1
    /\ ScratchName(2) \in DOMAIN dir
    /\ path(1, MAX_VERSION_FILES + 2) \in DOMAIN dir
    /\ \E f \in VersionFiles(dir) : f.stem # 1 /\ f.ext = MAX_VERSION_FILES

\* C26: when hard_link reports an error although the link was created (the
\* scratch file has two links), compare_and_swap goes on as after a
\* successful link and returns Ok; when nothing was linked it returns the
\* error.
C26_LinkCountFallback ==
    [][\A w \in Writers :
          (pc[w] = "link" /\ faults' = faults + 1) =>
             IF path(prefixOf[w], cur[w].version + 1) \in DOMAIN dir'
             THEN pc'[w] = "prune"
             ELSE pc'[w] = "ret" /\ casres'[w].kind = "Other"]_vars

\* C27: when several version files tie at the highest version and none of
\* them carries the writer's own prefix, load returns Ok with one of the
\* tied files.
C27_TieWithoutOwnPrefix ==
    [][\A w \in Writers :
          (/\ pc[w] = "load" /\ pc'[w] # "load"
           /\ Cardinality(TopFiles(dir)) >= 2
           /\ \A f \in TopFiles(dir) : ~PathContains(directory, f, prefixOf[w]))
          => (pc'[w] = "open" /\ cur'[w].path \in TopFiles(dir))]_vars

\* C28: with every writer performing one modify call on the same
\* AtomicFile and weak fairness on every writer's steps, every call
\* eventually returns, and a writer goes round its loop again only when the
\* highest version in the directory is beyond the one it loaded.
C28_ModifyTerminates ==
    /\ <>(\A m \in 1..NWriters : m \in DOMAIN outcome)
    /\ [][\A w \in Writers :
             (pc[w] = "ret" /\ pc'[w] = "load") =>
                HighestVersion(dir) > cur[w].version]_vars

C28_Witness ==
    /\ \E w \in Writers :
          /\ pc[w] = "load" /\ casres[w].kind = "AlreadyExists"
          /\ HighestVersion(dir) > cur[w].version
    /\ \E m \in DOMAIN outcome : outcome[m] = "Ok"

\* C29: an operation that inserts a path whose identifier is already a key
\* of id2path leaves the representative id2path[identifier] unchanged and
\* sets collisions[identifier] to 2 if it was absent and to one more
\* otherwise; checked here on index_new called within its contract.
C29_InsertKeepsRepresentative ==
    [][\A q \in Paths :
          (IndexNew(q) /\ upd'.ok) =>
             LET id == path2id'[q].id
             IN id \in DOMAIN id2path =>
                   /\ id2path'[id] = id2path[id]
                   /\ id \in DOMAIN collisions'
                   /\ collisions'[id] = IF id \in DOMAIN collisions
                                        THEN collisions[id] + 1 ELSE 2]_vars

\* C30: in update_all, a created or modified path whose freshly computed
\* identifier is a key of id2path after the deletion phase is not in
\* path2id afterwards and is not reported in added.
C30_KnownIdNotAdded ==
    [][(UpdateAll /\ upd'.ok) =>
          LET fresh == FreshEntries(TheIndex, fs)
              kept == DOMAIN AfterDeletion(TheIndex, fs).ix.id2path
          IN \A q \in DOMAIN fresh :
                fresh[q].id \in kept =>
                   /\ q \notin DOMAIN path2id'
                   /\ q \notin DOMAIN upd'.added]_vars

\* update_all has removed a modified path whose new content is that of
\* another indexed path: the old id is reported deleted, nothing is added
\* and the path is left out of the index.
C30_Witness ==
    /\ upd.ok /\ upd.deleted # {} /\ upd.added = << >>
    /\ \E q \in Paths :
          /\ scan_entry(fs[q]).ok
          /\ q \notin DOMAIN path2id
          /\ scan_entry(fs[q]).entry.id \in DOMAIN id2path
          /\ scan_entry(fs[q]).entry.id \notin upd.deleted
          /\ id2path[scan_entry(fs[q]).entry.id] # q

\* C31: update_all places an identifier in its deleted set only if no path
\* left in path2id after the deletion phase of that call carries it.
C31_DeletedOnlyIfUnheld ==
    [][(UpdateAll /\ upd'.ok) =>
          LET left == AfterDeletion(TheIndex, fs).ix.path2id
          IN \A id \in upd'.deleted :
                \A q \in DOMAIN left : left[q].id # id]_vars

\* A preserved path of the index: indexed and still a file of the tree.
Preserved(q) == q \in DOMAIN path2id /\ q \in discover_files(fs)

\* The time by which the file at q is younger than its index entry.
Elapsed(q) == fs[q].mtime - path2id[q].modified

\* The file at q has changed into content whose id the index does not
\* hold, and no other indexed path carries the id recorded for q.
ContentReplaced(q) ==
    /\ Preserved(q)
    /\ Elapsed(q) >= RESOURCE_UPDATED_THRESHOLD
    /\ scan_entry(fs[q]).ok
    /\ scan_entry(fs[q]).entry.id \notin DOMAIN id2path
    /\ \A r \in DOMAIN path2id : path2id[r].id # scan_entry(fs[q]).entry.id
    /\ PathsWith(path2id[q].id) = {q}

\* C32: when update_all returns Ok, a preserved path modified at least
\* RESOURCE_UPDATED_THRESHOLD after its entry, with new content unknown to
\* the index and an old id no other path carries, has its old id in
\* deleted, path -> new id in added and the new entry (new id, modification
\* time truncated to milliseconds) in path2id; a preserved path modified
\* less than the threshold after its entry keeps its entry and is in
\* neither set.
C32_ModifiedPathReplaced ==
    [][(UpdateAll /\ upd'.ok) =>
          \A q \in Paths :
             /\ ContentReplaced(q) =>
                   /\ path2id[q].id \in upd'.deleted
                   /\ q \in DOMAIN upd'.added
                   /\ upd'.added[q] = compute(fs[q].content)
                   /\ q \in DOMAIN path2id'
                   /\ path2id'[q] = [id |-> compute(fs[q].content),
                                     modified |-> TruncMs(fs[q].mtime)]
             /\ (Preserved(q) /\ Elapsed(q) < RESOURCE_UPDATED_THRESHOLD) =>
                   /\ q \notin DOMAIN upd'.added
                   /\ q \in DOMAIN path2id' /\ path2id'[q] = path2id[q]
                   /\ PathsWith(path2id[q].id) = {q} =>
                         path2id[q].id \notin upd'.deleted]_vars

\* C33: update_one(path, old_id) on a path missing from disk returns Ok
\* with deleted = {old_id} and empty added, and afterwards old_id is
\* carried by no entry of path2id and is a key of neither id2path nor
\* collisions; checked here on calls within the contract of update_one.
C33_MissingPathForgotten ==
    [][\A q \in Paths :
          (UpdateOne(q) /\ fs[q].kind = "none") =>
             LET old_id == path2id[q].id
             IN /\ upd' = [ok |-> TRUE, kind |-> "Ok", deleted |-> {old_id},
                           added |-> << >>]
                /\ \A r \in DOMAIN path2id' : path2id'[r].id # old_id
                /\ old_id \notin DOMAIN id2path'
                /\ old_id \notin DOMAIN collisions']_vars

\* C34: update_one(path, id) on an existing non-empty regular file whose
\* path is not in path2id returns an error and leaves path2id, id2path and
\* collisions unchanged.
C34_UnindexedPathIsError ==
    [][\A q \in Paths, id \in Ids, trace \in BOOLEAN :
          (UpdateOneAny(q, id, trace) /\ scan_entry(fs[q]).ok /\ q \notin DOMAIN path2id) =>
             /\ ~upd'.ok /\ ~panicked'
             /\ path2id' = path2id /\ id2path' = id2path
             /\ collisions' = collisions]_vars

\* C35: update_one(path, old_id) returns an error when the path exists
\* but is now a directory or an empty file; checked here on calls within
\* the contract of update_one.
C35_DirOrEmptyIsError ==
    [][\A q \in Paths :
          (UpdateOne(q) /\ fs[q].kind # "none" /\ ~scan_entry(fs[q]).ok) =>
             ~upd'.ok]_vars

\* C36: update_all never returns an error because of a condition that
\* concerns a single entry, such as a file whose modification time is
\* earlier than the recorded one: the call returns Ok.
C36_UpdateAllNeverFails ==
    [][UpdateAll => upd'.ok]_vars

\* C37: after update_all returns Ok the index agrees with what build
\* produces from the current tree: the same paths in path2id with the same
\* ids, the same ids in id2path and the same collision counts.
C37_UpdateAllAgreesWithBuild ==
    [][(UpdateAll /\ upd'.ok) =>
          \E order \in Listings(scan_entries(fs, discover_files(fs))) :
             LET b == build(fs, order, debug_assertions).ix
             IN /\ DOMAIN path2id' = DOMAIN b.path2id
                /\ \A q \in DOMAIN b.path2id : path2id'[q].id = b.path2id[q].id
                /\ DOMAIN id2path' = DOMAIN b.id2path
                /\ collisions' = b.collisions]_vars

\* C38: after any sequence of in-contract index calls the id of every
\* entry of path2id is a key of id2path, so count_resources() is the
\* number of distinct ids occurring in path2id.
C38_EveryIdReachable ==
    ~panicked =>
       /\ \A q \in DOMAIN path2id : path2id[q].id \in DOMAIN id2path
       /\ Cardinality(DOMAIN id2path) =
             Cardinality({path2id[q].id : q \in DOMAIN path2id})

\* C39: for one root path every caller of provide_index, concurrent or
\* not, receives the same index object, and the index of the root is
\* constructed at most once.
C39_OneSharedIndex ==
    /\ Cardinality(handed) <= 1
    /\ nindex <= 1

\* C40: compute_reader returns an identifier (carrying the given
\* data_size) exactly when the source has data_size bytes, whatever the
\* size: the count of bytes read neither overflows nor wraps, and a source
\* of another length is detected.
C40_SizeChecked ==
    rdres \notin {"idle", "loop"} => (rdres = "Ok" <=> rdlen = rdsize)

====
